---- MODULE Spec2Model ----
(***************************************************************************)
(* DocTrack (SatriaAi/Document-Tracking): the document repository facade   *)
(* (mockApiFetchDocuments / mockApiCreateDocument / mockApiDeleteDocument) *)
(* and the application state controller that drives it, in its two         *)
(* variants:                                                               *)
(*   "remote"  src/app/api/upload/upload.js  (shared JSON bin + blob upload)*)
(*   "local"   src/index.tsx                 (localStorage + in-memory db) *)
(* A behaviour fixes the variant in its first state.  Every asynchronous   *)
(* handler is cut at its awaits on I/O: the code between two awaits is one *)
(* atomic action (the UI thread is single-threaded), a request in flight   *)
(* is a task of the client, served by the store in a separate step.        *)
(***************************************************************************)
EXTENDS Integers, Sequences, FiniteSets, TLC

\* ------------------------------------------------------------------ bounds
\* Operations (submit, confirm delete, page reload) started in one behaviour.
MaxOps == 2

\* The UI instances (browser pages) that can share the store.
Clients == {"c1", "c2"}

\* ------------------------------------------------------------------ values
\* errorMessage = null
NoMessage == <<>>

\* A File of the upload form; obj tells the File objects of two submissions apart.
NoFile == [present |-> FALSE, name |-> "", size |-> 0, obj |-> 0]

FileA == [present |-> TRUE, name |-> "q1 plan.pdf", size |-> 1, obj |-> 0]

EmptyFile == [present |-> TRUE, name |-> "e.txt", size |-> 0, obj |-> 0]

\* What a submitted upload form can carry: FormData of #upload-form.
FormInputs ==
  { [name |-> "Budget", division |-> "Finance", status |-> "Pending", file |-> FileA],
    [name |-> "Blank", division |-> "HR", status |-> "Rejected", file |-> EmptyFile],
    [name |-> "Nofile", division |-> "Engineering", status |-> "Pending", file |-> NoFile] }

NoForm == [name |-> "", division |-> "", status |-> "", file |-> NoFile]

\* The url the blob storage hands out for the upload of request n: opaque to this
\* layer, and never the same for two uploads.
BlobUrl(n) == "https://blob/" \o ToString(n)

\* A record stored by an earlier session.
SeedDoc(n) ==
  [id |-> n, name |-> "Seed", division |-> "Marketing", status |-> "Approved",
   fileName |-> "s.md", fileUrl |-> "https://blob/s" \o ToString(n)]

\* The collections a behaviour can start from; ids ascend, as appending max + 1
\* leaves them.
SeedCollections == {<<>>, <<SeedDoc(1)>>, <<SeedDoc(1), SeedDoc(3)>>}

\* const divisions, const statuses
Divisions == {"HR", "Finance", "Engineering", "Marketing"}

Statuses == {"Approved", "Pending", "Rejected"}

\* let filters = { division: 'all', status: 'all', search: '' }
NeutralFilters == [division |-> "all", status |-> "all", search |-> ""]

\* What the user can type into #search-input.
SearchTexts == {"", "SEED", "pdf", "an"}

\* The records of a stored collection on which the filters tell: names and file
\* names in both cases, every division but one, every status.
ViewDoc(n) ==
  IF n = 1 THEN [id |-> 1, name |-> "Budget", division |-> "Finance", status |-> "Pending",
                 fileName |-> "q1 plan.pdf", fileUrl |-> "https://blob/v1"]
  ELSE IF n = 2 THEN [id |-> 2, name |-> "Seed", division |-> "Marketing", status |-> "Approved",
                      fileName |-> "s.md", fileUrl |-> "https://blob/v2"]
  ELSE [id |-> n, name |-> "Blank", division |-> "HR", status |-> "Rejected",
        fileName |-> "SEED.PDF", fileUrl |-> "https://blob/v" \o ToString(n)]

ViewCollections == {<<>>, <<ViewDoc(2), ViewDoc(3)>>, <<ViewDoc(1), ViewDoc(2), ViewDoc(3)>>}

\* The container of the documents as the page shows it: the list that
\* updateDocumentsView rendered (listed), or the spinner / the error message.
NoView == [listed |-> FALSE, docs |-> <<>>]

\* The upload endpoint as the repository has it, three times over:
\*   "api"    src/api/upload.js              filename in the query, raw body
\*   "body"   src/app/api/upload/upload.js   handler (3-25), the file is req.body
\*   "route"  src/app/api/upload/route.ts    POST, multipart field "file"
GatewayKinds == {"api", "body", "route"}

Methods == {"POST", "GET"}

\* What a request carries as its file: one with a name (the filename parameter, a
\* File or body with a name), one without a name (no filename parameter; a body or
\* a form value that has no name, or an empty one), or none at all.
FileKinds == {"named", "unnamed", "none"}

\* A response body: {error: string}, the object blob storage returned ({url, ...}),
\* or whatever the platform sends when no handler answered.
NoResponse == [status |-> 0, body |-> "none", url |-> ""]

\* The endpoint between two requests.  token: BLOB_READ_WRITE_TOKEN is set; loads:
\* src/api/upload.js could be loaded (see ApiLoads); n: requests received; put: the
\* calls of put() the handler made for the request, by the name they passed.
QuietGateway ==
  [token |-> TRUE, loads |-> TRUE, n |-> 0, kind |-> "none", method |-> "", file |-> "none",
   phase |-> "idle", put |-> <<>>, blob |-> "none", response |-> NoResponse]

\* An HTTP exchange as the client sees it: fetch() rejected (thrown), or a status
\* with the parts of the body the code reads (record of the bin, url of the blob).
NoHttp == [thrown |-> FALSE, status |-> 0, record |-> <<>>, url |-> ""]

\* What a facade call hands back: { ok, status, json: () => ({message}) }.  A message
\* is the list of the parts the code joins with ": " or ", status: ".
NoResult == [ok |-> FALSE, status |-> 0, message |-> <<>>]

\* The record of the facade call that the last step completed (history, read by the
\* properties only; NoOp after any other step): its result and what it did on the way.
\*   upload/put  what the gateway / the store did with its POST / PUT
\*   nUpload, nGet, nPut  requests it issued;  applied  writes the store applied
\*   readOk   its read was answered with the collection (200, or 404: none yet)
\*   readHit  the stored collection held a record with its id when it was read
\*   readMax  the highest id of the stored collection when it was read (0: none)
\*   before   the collection it read (delete: the one it filtered)
\*   alone    no other create or delete was under way at any time since it started
\*   stored, cache  the store and the page's file cache just before the step
\*   http     the response it resumed with (remote; of a list: the answer to its read)
\* A completed list is recorded too (op "list"): after is the handler that awaited
\* it, and id, url, before, alone are those of that handler's create or delete.
\* So is the window.open of handleDocumentOpen (op "open"): id is the document's,
\* file the File whose object URL was opened, or else url the address opened.
NoStore == [bin |-> [exists |-> FALSE, record |-> <<>>], persisted |-> <<>>, memory |-> <<>>]

NoOp == [tid |-> 0, op |-> "none", after |-> "none", id |-> 0, file |-> NoFile,
         result |-> NoResult, upload |-> "none", url |-> "", put |-> "none", nUpload |-> 0,
         nGet |-> 0, nPut |-> 0, applied |-> 0, readOk |-> FALSE, readHit |-> FALSE,
         readMax |-> 0, before |-> <<>>, alone |-> FALSE, stored |-> NoStore,
         cache |-> [i \in {} |-> NoFile], http |-> NoHttp]

NoOps == [c \in Clients |-> NoOp]

\* ------------------------------------------------------------------ state
VARIABLES
  variant,            \* "remote" | "local": which source file runs
  page,               \* per client: the page is open
  db,                 \* remote: the JSON bin, [exists, record]
  storage,            \* local: localStorage under DB_KEY, [has, value]
  mockDatabase,       \* local: per client, the in-memory list
  lastId,             \* local: per client, the id counter
  mockFileStore,      \* per client: id -> File, the session cache
  documents,          \* per client controller state ...
  showUploadModal,
  documentToDelete,   \* <<>> (null) or <<doc>>
  isLoading,
  errorMessage,
  isSubmitting,
  deleteCheckbox,     \* DOM: #delete-confirm-checkbox checked
  deleteBtnDisabled,  \* DOM: #delete-confirm-btn disabled
  uploadBtnDisabled,  \* DOM: #upload-submit-btn disabled
  visible,            \* DOM: per client, what .documents-container shows
  filters,            \* per client: [division, status, search]
  currentView,        \* per client: "grid" | "list"
  gateway,            \* the upload endpoint and the request it is handling
  lastOp,             \* per client: the facade call the last step completed (history)
  assigned,           \* the ids given to created records so far (history)
  tasks,              \* per client: the handler invocations suspended at an await
  ops                 \* operations started so far (bounds the behaviour)

storeVars == <<db, storage, mockDatabase, lastId>>

ctlVars == <<documents, showUploadModal, documentToDelete, isLoading, errorMessage, isSubmitting>>

domVars == <<deleteCheckbox, deleteBtnDisabled, uploadBtnDisabled, visible>>

viewVars == <<filters, currentView>>

\* The pages and their store: all but the upload endpoint.
appVars == <<variant, page, db, storage, mockDatabase, lastId, mockFileStore, documents,
             showUploadModal, documentToDelete, isLoading, errorMessage, isSubmitting,
             deleteCheckbox, deleteBtnDisabled, uploadBtnDisabled, visible, filters, currentView,
             lastOp, assigned, tasks, ops>>

vars == <<variant, page, db, storage, mockDatabase, lastId, mockFileStore, documents,
          showUploadModal, documentToDelete, isLoading, errorMessage, isSubmitting,
          deleteCheckbox, deleteBtnDisabled, uploadBtnDisabled, visible, filters, currentView,
          gateway, lastOp, assigned, tasks, ops>>

\* ------------------------------------------------------------------ helpers
RECURSIVE MaxOf(_)
MaxOf(S) == IF S = {} THEN 0 ELSE LET x == CHOOSE y \in S : TRUE IN
              LET m == MaxOf(S \ {x}) IN IF x > m THEN x ELSE m

Ids(docs) == {docs[i].id : i \in 1..Len(docs)}

UniqueIds(docs) == \A i, j \in 1..Len(docs) : docs[i].id = docs[j].id => i = j

RemoveAt(s, i) == SubSeq(s, 1, i - 1) \o SubSeq(s, i + 1, Len(s))

EmptyStore == [i \in {} |-> NoFile]

MapSet(m, k, v) == [i \in (DOMAIN m) \cup {k} |-> IF i = k THEN v ELSE m[i]]

MapDelete(m, k) == [i \in (DOMAIN m) \ {k} |-> m[i]]

\* ------------------------------------------------- facade, remote (upload.js)
\* A faulty file check: the size is not looked at.
FileInvalidAbsentOnly(file) == ~file.present

\* !file || file.size === 0
FileInvalid(file) == ~file.present \/ file.size = 0

ValidationResult ==
  [ok |-> FALSE, status |-> 400, message |-> <<"File is required and cannot be empty.">>]

HttpOk(http) == ~http.thrown /\ http.status >= 200 /\ http.status <= 299

\* The Error the client ends with on a failed exchange: fetch's own (network), or
\* the one the code throws with `text`.
HttpError(http, text) ==
  IF http.thrown THEN <<"Failed to fetch">> ELSE <<text, ToString(http.status)>>

\* A faulty upload step: the answer is not checked for its url.
UploadErrorUrlUnchecked(http) ==
  IF http.thrown THEN <<"Failed to fetch">>
  ELSE IF ~HttpOk(http) THEN <<"Failed to upload file to blob storage", ToString(http.status)>>
  ELSE <<>>

\* try { fetch /api/upload ... } catch: the error of the upload step, <<>> when it is fine.
UploadError(http) ==
  IF http.thrown THEN <<"Failed to fetch">>
  ELSE IF ~HttpOk(http) THEN <<"Failed to upload file to blob storage", ToString(http.status)>>
  ELSE IF http.url = "" THEN <<"Blob storage response did not include a URL.">>
  ELSE <<>>

UploadFailedResult(http) ==
  [ok |-> FALSE, status |-> 500, message |-> <<"File upload failed">> \o UploadError(http)]

\* A faulty metadata catch: it reports with the words of the upload catch.
MetadataFailedAsUpload(err) ==
  [ok |-> FALSE, status |-> 500, message |-> <<"File upload failed">> \o err]

MetadataFailedResult(err) ==
  [ok |-> FALSE, status |-> 500, message |-> <<"Metadata update failed">> \o err]

\* A faulty mockApiFetchDocuments: 404 is an error like any other status.
FetchedJsonStrict(http) ==
  IF http.thrown THEN [isArray |-> FALSE, items |-> <<>>, message |-> <<"Failed to fetch">>]
  ELSE IF ~HttpOk(http) THEN
    [isArray |-> FALSE, items |-> <<>>,
     message |-> <<"Network response was not ok, status", ToString(http.status)>>]
  ELSE [isArray |-> TRUE, items |-> http.record, message |-> <<>>]

\* mockApiFetchDocuments: what its json() resolves to, an array or {message}.
FetchedJson(http) ==
  IF http.thrown THEN [isArray |-> FALSE, items |-> <<>>, message |-> <<"Failed to fetch">>]
  ELSE IF ~HttpOk(http) THEN
    IF http.status = 404 THEN [isArray |-> TRUE, items |-> <<>>, message |-> <<>>]
    ELSE [isArray |-> FALSE, items |-> <<>>,
          message |-> <<"Network response was not ok, status", ToString(http.status)>>]
  ELSE [isArray |-> TRUE, items |-> http.record, message |-> <<>>]

\* mockApiFetchDocuments: the ok flag of what it resolves to.
FetchedOk(http) == FetchedJson(http).isArray

\* A faulty lastId: the id of the first record in place of the highest id.
LastIdOfFirst(currentDocs) ==
  IF currentDocs.isArray /\ currentDocs.items # <<>> THEN currentDocs.items[1].id ELSE 0

\* A faulty lastId: the number of records in place of the highest id.
LastIdOfCount(currentDocs) ==
  IF currentDocs.isArray THEN Len(currentDocs.items) ELSE 0

\* Array.isArray(currentDocs) ? currentDocs.reduce(max of doc.id, 0) : 0
LastIdOf(currentDocs) ==
  IF currentDocs.isArray THEN MaxOf(Ids(currentDocs.items)) ELSE 0

\* A faulty newDocument: the url is made up from the file name.
NewDocumentNamedUrl(form, newId, url) ==
  [id |-> newId, name |-> form.name, division |-> form.division, status |-> form.status,
   fileName |-> form.file.name, fileUrl |-> "https://blob/" \o form.file.name]

NewDocument(form, newId, url) ==
  [id |-> newId, name |-> form.name, division |-> form.division, status |-> form.status,
   fileName |-> form.file.name, fileUrl |-> url]

\* [...(Array.isArray(currentDocs) ? currentDocs : []), newDocument]
UpdatedDocsCreate(currentDocs, newDocument) ==
  Append(IF currentDocs.isArray THEN currentDocs.items ELSE <<>>, newDocument)

\* A faulty filter: it keeps the records above docId only.
UpdatedDocsDeleteAbove(items, docId) == SelectSeq(items, LAMBDA d : d.id > docId)

\* currentDocs.filter(doc => doc.id !== docId)
UpdatedDocsDelete(items, docId) == SelectSeq(items, LAMBDA d : d.id # docId)

\* A faulty not-found test: it never finds the lengths equal.
DeleteNotFoundNever(items, updatedDocs) == FALSE

\* updatedDocs.length === currentDocs.length
DeleteNotFound(items, updatedDocs) == Len(updatedDocs) = Len(items)

NotFoundResult == [ok |-> FALSE, status |-> 404, message |-> <<"Document not found">>]

\* A faulty catch of delete: it answers 409 Conflict.
DeleteFailedAsConflict(err) == [ok |-> FALSE, status |-> 409, message |-> err]

DeleteFailedResult(err) == [ok |-> FALSE, status |-> 500, message |-> err]

\* ------------------------------------------------- the documents view (both variants)
\* The characters of the strings that names, file names and search texts are here.
Chars(s) ==
  CASE
       s = "Seed" -> <<"S", "e", "e", "d">>
    [] s = "Budget" -> <<"B", "u", "d", "g", "e", "t">>
    [] s = "Blank" -> <<"B", "l", "a", "n", "k">>
    [] s = "Nofile" -> <<"N", "o", "f", "i", "l", "e">>
    [] s = "s.md" -> <<"s", ".", "m", "d">>
    [] s = "q1 plan.pdf" -> <<"q", "1", " ", "p", "l", "a", "n", ".", "p", "d", "f">>
    [] s = "e.txt" -> <<"e", ".", "t", "x", "t">>
    [] s = "SEED.PDF" -> <<"S", "E", "E", "D", ".", "P", "D", "F">>
    [] s = "SEED" -> <<"S", "E", "E", "D">>
    [] s = "pdf" -> <<"p", "d", "f">>
    [] s = "an" -> <<"a", "n">>
    [] OTHER -> <<>>

UpperLetters == <<"A", "B", "C", "D", "E", "F", "G", "H", "I", "J", "K", "L", "M", "N", "O", "P", "Q", "R", "S", "T", "U", "V", "W", "X", "Y", "Z">>

LowerLetters == <<"a", "b", "c", "d", "e", "f", "g", "h", "i", "j", "k", "l", "m", "n", "o", "p", "q", "r", "s", "t", "u", "v", "w", "x", "y", "z">>

\* String.prototype.toLowerCase, a character at a time
LowerOf(ch) ==
  IF \E i \in DOMAIN UpperLetters : UpperLetters[i] = ch
    THEN LowerLetters[CHOOSE i \in DOMAIN UpperLetters : UpperLetters[i] = ch]
    ELSE ch

ToLowerCase(cs) == [i \in DOMAIN cs |-> LowerOf(cs[i])]

\* String.prototype.includes
Includes(hay, needle) ==
  \E i \in 1..(Len(hay) - Len(needle) + 1) : SubSeq(hay, i, i + Len(needle) - 1) = needle

\* A faulty searchMatch: the cases are not folded.
SearchMatchCaseSensitive(doc, search) ==
  \/ Includes(Chars(doc.name), Chars(search))
  \/ Includes(Chars(doc.fileName), Chars(search))

\* doc.name.toLowerCase().includes(search.toLowerCase()) || doc.fileName ... likewise
SearchMatch(doc, search) ==
  \/ Includes(ToLowerCase(Chars(doc.name)), ToLowerCase(Chars(search)))
  \/ Includes(ToLowerCase(Chars(doc.fileName)), ToLowerCase(Chars(search)))

\* A faulty divisionMatch: 'all' is taken for a division.
DivisionMatchExact(doc, division) == doc.division = division

DivisionMatch(doc, division) == division = "all" \/ doc.division = division

StatusMatch(doc, status) == status = "all" \/ doc.status = status

\* documents.filter(doc => searchMatch && divisionMatch && statusMatch)
FilteredDocs(docs, f) ==
  SelectSeq(docs, LAMBDA doc : /\ SearchMatch(doc, f.search)
                               /\ DivisionMatch(doc, f.division)
                               /\ StatusMatch(doc, f.status))

\* What .documents-container shows after render(): renderMainContent's spinner or
\* error message, or else the list of updateDocumentsView.
ViewOf(docs, loading, message, f) ==
  IF loading \/ message # NoMessage THEN NoView
  ELSE [listed |-> TRUE, docs |-> FilteredDocs(docs, f)]

\* ------------------------------------------------------------------ tasks
\* A handler invocation suspended at an await.
\*   h    the handler: "load" (DOMContentLoaded), "create" (handleFormSubmit),
\*        "delete" (handleConfirmDelete)
\*   pc   the await it is at: "upload" (POST /api/upload), "cget"/"dget" (the read of
\*        create/delete), "cput"/"dput" (their PUT), "load" (fetchDocuments' read),
\*        "lcreate"/"ldelete" (the timer of the local facade)
\*   net  "sent": the request is on its way; "answered": http holds the response
\*   btnLive  local: the submit button the handler captured is still in the DOM
\* and the locals of the handler; the remaining fields are history (see NoOp).
NewTask(tid, h, pc, form, docId) ==
  [tid |-> tid, h |-> h, pc |-> pc, net |-> "sent", form |-> form, docId |-> docId,
   http |-> NoHttp, blobUrl |-> "", body |-> <<>>, newId |-> 0, orphan |-> FALSE,
   btnLive |-> FALSE, upload |-> "none", put |-> "none", nUpload |-> 0, nGet |-> 0,
   nPut |-> 0, applied |-> 0, readOk |-> FALSE, readHit |-> FALSE, readMax |-> 0,
   before |-> <<>>, alone |-> FALSE]

\* The store as page c has it: the bin, localStorage, the in-memory list.
StoreOf(c) == [bin |-> db, persisted |-> storage, memory |-> mockDatabase[c]]

OpRecord(c, t, op, id, result) ==
  [tid |-> t.tid, op |-> op, after |-> t.h, id |-> id, file |-> t.form.file,
   result |-> result, upload |-> t.upload, url |-> t.blobUrl, put |-> t.put,
   nUpload |-> t.nUpload, nGet |-> t.nGet, nPut |-> t.nPut, applied |-> t.applied,
   readOk |-> t.readOk, readHit |-> t.readHit, readMax |-> t.readMax,
   before |-> t.before, alone |-> t.alone, stored |-> StoreOf(c), cache |-> mockFileStore[c],
   http |-> t.http]

\* The task in which a handler awaits the list that follows its create or delete.
LoadPhase(t) ==
  [NewTask(t.tid, t.h, "load", NoForm, t.docId)
     EXCEPT !.newId = t.newId, !.blobUrl = t.blobUrl, !.before = t.before, !.alone = t.alone]

\* No create or delete is under way on any page (a PUT whose page is gone included).
NoWriters == \A c \in Clients : \A i \in DOMAIN tasks[c] : tasks[c][i].pc = "load"

\* A create or delete starts as task t of page c: it is alone if there are no
\* writers, and no task under way is alone any longer.
Starting(c, t) ==
  [d \in Clients |->
     LET seen == [k \in DOMAIN tasks[d] |-> [tasks[d][k] EXCEPT !.alone = FALSE]]
     IN IF d = c THEN Append(seen, [t EXCEPT !.alone = NoWriters]) ELSE seen]

Waiting(c, i, pcs) ==
  /\ i \in DOMAIN tasks[c]
  /\ tasks[c][i].pc \in pcs
  /\ tasks[c][i].net = "sent"

Answered(c, i, pcs) ==
  /\ i \in DOMAIN tasks[c]
  /\ tasks[c][i].pc \in pcs
  /\ tasks[c][i].net = "answered"
  /\ ~tasks[c][i].orphan

\* render() replaces the DOM: an element a suspended handler holds is detached.
Rendered(ts) == [k \in DOMAIN ts |-> [ts[k] EXCEPT !.btnLive = FALSE]]

\* The count of records each id was given to.
Given(log, id) == IF id \in DOMAIN log THEN log[id] ELSE 0

Assign(log, id) == [k \in (DOMAIN log) \cup {id} |-> IF k = id THEN Given(log, id) + 1 ELSE log[k]]

SeedLog(docs) == [k \in Ids(docs) |-> 1]

\* ------------------------------------------------------------------ initial state
\* The JSON bin before the first request: not created yet, or holding a collection.
InitBins ==
  {[exists |-> FALSE, record |-> <<>>]} \cup {[exists |-> TRUE, record |-> s] : s \in SeedCollections}

\* The module-level state of a page (upload.js 198-209, index.tsx 130-141) once
\* DOMContentLoaded has run: loadDatabase() (local) and the first fetchDocuments() up to
\* its await.  A page that is not open has no handler to resume.
InitStart(open, bins, lists) ==
  /\ variant \in {"remote", "local"}
  /\ page = [c \in Clients |-> c \in open]
  /\ IF variant = "remote"
       THEN /\ db \in bins
            /\ storage = <<>>
            /\ mockDatabase = [c \in Clients |-> <<>>]
            /\ lastId = [c \in Clients |-> 0]
            /\ assigned = SeedLog(db.record)
       ELSE /\ db = [exists |-> FALSE, record |-> <<>>]
            /\ storage \in lists
            /\ mockDatabase = [c \in Clients |-> IF c \in open THEN storage ELSE <<>>]
            /\ lastId = [c \in Clients |-> IF c \in open THEN MaxOf(Ids(storage)) ELSE 0]
            /\ assigned = SeedLog(storage)
  /\ mockFileStore = [c \in Clients |-> EmptyStore]
  /\ documents = [c \in Clients |-> <<>>]
  /\ showUploadModal = [c \in Clients |-> FALSE]
  /\ documentToDelete = [c \in Clients |-> <<>>]
  /\ isLoading = [c \in Clients |-> TRUE]
  /\ errorMessage = [c \in Clients |-> NoMessage]
  /\ isSubmitting = [c \in Clients |-> FALSE]
  /\ deleteCheckbox = [c \in Clients |-> FALSE]
  /\ deleteBtnDisabled = [c \in Clients |-> TRUE]
  /\ uploadBtnDisabled = [c \in Clients |-> FALSE]
  /\ visible = [c \in Clients |-> NoView]
  /\ filters = [c \in Clients |-> NeutralFilters]
  /\ currentView = [c \in Clients |-> "grid"]
  /\ lastOp = NoOps
  /\ tasks = [c \in Clients |-> IF c \in open THEN <<NewTask(0, "load", "load", NoForm, 0)>> ELSE <<>>]
  /\ ops = 0

\* The pages `open` on a store that an earlier session left.
InitPages(open) ==
  /\ InitStart(open, InitBins, SeedCollections)
  /\ gateway = QuietGateway

\* One page.
Init == InitPages({"c1"})

\* One page on a store whose records differ in what the filters look at.
InitView ==
  /\ InitStart({"c1"}, {[exists |-> TRUE, record |-> s] : s \in ViewCollections}, ViewCollections)
  /\ gateway = QuietGateway

\* Two pages on the same store.
InitShared == InitPages(Clients)

\* ------------------------------------------------------------------ render
\* A faulty render(): the confirm button of the delete modal comes back enabled.
RenderConfirmEnabled(c, submitting, docs, loading, message) ==
  /\ deleteCheckbox' = [deleteCheckbox EXCEPT ![c] = FALSE]
  /\ deleteBtnDisabled' = [deleteBtnDisabled EXCEPT ![c] = FALSE]
  /\ uploadBtnDisabled' = [uploadBtnDisabled EXCEPT ![c] = submitting]
  /\ visible' = [visible EXCEPT ![c] = ViewOf(docs, loading, message, filters[c])]

\* render(): the page is rebuilt from the state (submitting, docs, loading and
\* message are isSubmitting, documents, isLoading and errorMessage as the handler has
\* set them): the confirm box comes back unchecked, its button disabled, the submit
\* button disabled iff isSubmitting, and the container shows the spinner, the error
\* or, through updateDocumentsView(), the filtered list.
Render(c, submitting, docs, loading, message) ==
  /\ deleteCheckbox' = [deleteCheckbox EXCEPT ![c] = FALSE]
  /\ deleteBtnDisabled' = [deleteBtnDisabled EXCEPT ![c] = TRUE]
  /\ uploadBtnDisabled' = [uploadBtnDisabled EXCEPT ![c] = submitting]
  /\ visible' = [visible EXCEPT ![c] = ViewOf(docs, loading, message, filters[c])]

Set(f, c, v) == [f EXCEPT ![c] = v]

\* ------------------------------------------------------------------ environment
\* What POST /api/upload can answer to the upload of request n: 200 with the blob's
\* url, a non-2xx status, 200 without a url, or no answer at all (fetch rejects).
UploadOutcomes(n) ==
  { [thrown |-> FALSE, status |-> 200, record |-> <<>>, url |-> BlobUrl(n)],
    [thrown |-> FALSE, status |-> 500, record |-> <<>>, url |-> ""],
    [thrown |-> FALSE, status |-> 200, record |-> <<>>, url |-> ""],
    [thrown |-> TRUE, status |-> 0, record |-> <<>>, url |-> ""] }

UploadKind(http) ==
  IF http.thrown THEN "thrown"
  ELSE IF ~HttpOk(http) THEN "http_error"
  ELSE IF http.url = "" THEN "no_url"
  ELSE "ok"

\* What GET <bin>/latest can answer: the record of the bin (404 while there is no
\* bin), or a failure.
GetOutcomes ==
  { IF db.exists THEN [thrown |-> FALSE, status |-> 200, record |-> db.record, url |-> ""]
                 ELSE [thrown |-> FALSE, status |-> 404, record |-> <<>>, url |-> ""],
    [thrown |-> FALSE, status |-> 500, record |-> <<>>, url |-> ""] }

\* The store answers a read in flight.
ServeGet(c, i) ==
  /\ page[c]
  /\ variant = "remote"
  /\ Waiting(c, i, {"cget", "dget", "load"})
  /\ \E o \in GetOutcomes :
       tasks' = [tasks EXCEPT ![c][i] =
                   [@ EXCEPT !.net = "answered", !.http = o,
                             !.readOk = o.status \in {200, 404},
                             !.readHit = tasks[c][i].docId \in Ids(db.record),
                             !.readMax = MaxOf(Ids(db.record))]]
  /\ lastOp' = NoOps
  /\ UNCHANGED <<variant, page, gateway, viewVars, storeVars, mockFileStore, ctlVars, domVars, assigned, ops>>

\* The store answers a PUT in flight: it replaces the whole record, or fails and
\* leaves it.  The PUT of a page that is gone has nobody to answer to.
ServePut(c, i) ==
  /\ page[c]
  /\ variant = "remote"
  /\ Waiting(c, i, {"cput", "dput"})
  /\ \E outcome \in {"applied", "http_error"} :
       LET t == tasks[c][i]
           done == outcome = "applied"
       IN /\ db' = IF done THEN [exists |-> TRUE, record |-> t.body] ELSE db
          /\ assigned' = IF done /\ t.pc = "cput" THEN Assign(assigned, t.newId) ELSE assigned
          /\ tasks' = IF t.orphan
                        THEN [tasks EXCEPT ![c] = RemoveAt(@, i)]
                        ELSE [tasks EXCEPT ![c][i] =
                                [@ EXCEPT !.net = "answered",
                                          !.http = [NoHttp EXCEPT !.status = IF done THEN 200 ELSE 500],
                                          !.put = outcome,
                                          !.applied = IF done THEN 1 ELSE 0]]
  /\ lastOp' = NoOps
  /\ UNCHANGED <<variant, page, gateway, viewVars, storage, mockDatabase, lastId, mockFileStore, ctlVars, domVars,
                ops>>

\* ------------------------------------------------- controller, remote (upload.js)
\* A catch that also dismisses the modals, as the success path does.
FailedCallClosing(c, i, t, op, id, result) ==
  /\ lastOp' = Set(NoOps, c, OpRecord(c, t, op, id, result))
  /\ tasks' = [tasks EXCEPT ![c] = Rendered(RemoveAt(@, i))]
  /\ isSubmitting' = Set(isSubmitting, c, FALSE)
  /\ showUploadModal' = Set(showUploadModal, c, FALSE)
  /\ documentToDelete' = Set(documentToDelete, c, <<>>)
  /\ Render(c, FALSE, documents[c], isLoading[c], errorMessage[c])
  /\ UNCHANGED <<documents, isLoading, errorMessage>>

\* The catch of handleFormSubmit / handleConfirmDelete: alert, isSubmitting = false,
\* render().  t is the invocation, which ends here.
FailedCall(c, i, t, op, id, result) ==
  /\ lastOp' = Set(NoOps, c, OpRecord(c, t, op, id, result))
  /\ tasks' = [tasks EXCEPT ![c] = Rendered(RemoveAt(@, i))]
  /\ isSubmitting' = Set(isSubmitting, c, FALSE)
  /\ Render(c, FALSE, documents[c], isLoading[c], errorMessage[c])
  /\ UNCHANGED <<documents, showUploadModal, documentToDelete, isLoading, errorMessage>>

\* mockApiCreateDocument resumes with the gateway's answer to the upload.
CreateAfterUpload(c, i) ==
  /\ page[c]
  /\ variant = "remote"
  /\ Waiting(c, i, {"upload"})
  /\ \E o \in UploadOutcomes(tasks[c][i].tid) :
       LET t == [tasks[c][i] EXCEPT !.upload = UploadKind(o)] IN
         IF UploadError(o) # <<>>
           THEN FailedCall(c, i, t, "create", 0, UploadFailedResult(o))
           ELSE /\ tasks' = [tasks EXCEPT ![c][i] =
                               [t EXCEPT !.pc = "cget", !.blobUrl = o.url, !.nGet = 1]]
                /\ lastOp' = NoOps
                /\ UNCHANGED <<ctlVars, domVars>>
  /\ UNCHANGED <<variant, page, gateway, viewVars, storeVars, mockFileStore, assigned, ops>>

\* mockApiCreateDocument resumes with what mockApiFetchDocuments resolved to: it
\* derives the id, caches the file and sends the whole new collection.
CreateAfterGet(c, i) ==
  /\ page[c]
  /\ variant = "remote"
  /\ Answered(c, i, {"cget"})
  /\ LET t == tasks[c][i]
         currentDocs == FetchedJson(t.http)
         newDocument == NewDocument(t.form, LastIdOf(currentDocs) + 1, t.blobUrl)
     IN /\ mockFileStore' = [mockFileStore EXCEPT ![c] = MapSet(@, newDocument.id, t.form.file)]
        /\ tasks' = [tasks EXCEPT ![c][i] =
                       [t EXCEPT !.pc = "cput", !.net = "sent", !.http = NoHttp,
                                 !.newId = newDocument.id, !.before = currentDocs.items,
                                 !.body = UpdatedDocsCreate(currentDocs, newDocument),
                                 !.nPut = 1]]
  /\ lastOp' = NoOps
  /\ UNCHANGED <<variant, page, gateway, viewVars, storeVars, ctlVars, domVars, assigned, ops>>

\* mockApiCreateDocument resumes with the PUT's answer, and handleFormSubmit with
\* its result: on success handleUploadModalClose() and fetchDocuments() up to its await.
CreateAfterPut(c, i) ==
  /\ page[c]
  /\ variant = "remote"
  /\ Answered(c, i, {"cput"})
  /\ LET t == tasks[c][i] IN
       IF ~HttpOk(t.http)
         THEN FailedCall(c, i, t, "create", t.newId,
                MetadataFailedResult(HttpError(t.http, "Failed to update metadata database, status")))
         ELSE /\ lastOp' = Set(NoOps, c, OpRecord(c, t, "create", t.newId,
                                            [ok |-> TRUE, status |-> 201, message |-> <<>>]))
              /\ showUploadModal' = Set(showUploadModal, c, FALSE)
              /\ isSubmitting' = Set(isSubmitting, c, FALSE)
              /\ isLoading' = Set(isLoading, c, TRUE)
              /\ errorMessage' = Set(errorMessage, c, NoMessage)
              /\ Render(c, FALSE, documents[c], TRUE, NoMessage)
              /\ tasks' = [tasks EXCEPT ![c] =
                             Rendered([@ EXCEPT ![i] = LoadPhase(t)])]
              /\ UNCHANGED <<documents, documentToDelete>>
  /\ UNCHANGED <<variant, page, gateway, viewVars, storeVars, mockFileStore, assigned, ops>>

\* mockApiDeleteDocument resumes with what mockApiFetchDocuments resolved to.
DeleteAfterGet(c, i) ==
  /\ page[c]
  /\ variant = "remote"
  /\ Answered(c, i, {"dget"})
  /\ LET currentDocs == FetchedJson(tasks[c][i].http)
         t == [tasks[c][i] EXCEPT !.before = currentDocs.items]
         updatedDocs == UpdatedDocsDelete(currentDocs.items, t.docId)
     IN IF ~currentDocs.isArray
          THEN /\ FailedCall(c, i, t, "delete", t.docId,
                    DeleteFailedResult(<<"currentDocs.filter is not a function">>))
               /\ UNCHANGED mockFileStore
          ELSE IF DeleteNotFound(currentDocs.items, updatedDocs)
            THEN /\ FailedCall(c, i, t, "delete", t.docId, NotFoundResult)
                 /\ UNCHANGED mockFileStore
            ELSE /\ mockFileStore' = [mockFileStore EXCEPT ![c] = MapDelete(@, t.docId)]
                 /\ tasks' = [tasks EXCEPT ![c][i] =
                                [t EXCEPT !.pc = "dput", !.net = "sent", !.http = NoHttp,
                                          !.body = updatedDocs, !.nPut = 1]]
                 /\ lastOp' = NoOps
                 /\ UNCHANGED <<ctlVars, domVars>>
  /\ UNCHANGED <<variant, page, gateway, viewVars, storeVars, assigned, ops>>

\* mockApiDeleteDocument resumes with the PUT's answer, and handleConfirmDelete with
\* its result: on 204 fetchDocuments() up to its await.
DeleteAfterPut(c, i) ==
  /\ page[c]
  /\ variant = "remote"
  /\ Answered(c, i, {"dput"})
  /\ LET t == tasks[c][i] IN
       IF ~HttpOk(t.http)
         THEN FailedCall(c, i, t, "delete", t.docId,
                DeleteFailedResult(HttpError(t.http, "Failed to update database, status")))
         ELSE /\ lastOp' = Set(NoOps, c, OpRecord(c, t, "delete", t.docId,
                                            [ok |-> TRUE, status |-> 204, message |-> <<>>]))
              /\ isLoading' = Set(isLoading, c, TRUE)
              /\ errorMessage' = Set(errorMessage, c, NoMessage)
              /\ Render(c, isSubmitting[c], documents[c], TRUE, NoMessage)
              /\ tasks' = [tasks EXCEPT ![c] =
                             Rendered([@ EXCEPT ![i] = LoadPhase(t)])]
              /\ UNCHANGED <<documents, showUploadModal, documentToDelete, isSubmitting>>
  /\ UNCHANGED <<variant, page, gateway, viewVars, storeVars, mockFileStore, assigned, ops>>

\* A handleCloseDeleteModal that leaves isSubmitting alone in both variants.
CloseDeleteKeepsSubmitting(c, submitting) == submitting

\* handleCloseDeleteModal: the remote variant also clears isSubmitting.
CloseDeleteSubmitting(c, submitting) == IF variant = "remote" THEN FALSE ELSE submitting

\* A fetchDocuments without its finally: isLoading is cleared on success only.
LoadingAfterFetchOnSuccess(ok) == ~ok

\* finally { isLoading = false; render(); } of fetchDocuments, the list having
\* resolved with ok or not.
LoadingAfterFetch(ok) == FALSE

\* fetchDocuments resumes with what mockApiFetchDocuments resolved to; the delete
\* handler that awaited it goes on to handleCloseDeleteModal().
FetchDocumentsDone(c, i) ==
  /\ page[c]
  /\ variant = "remote"
  /\ Answered(c, i, {"load"})
  /\ LET t == tasks[c][i]
         json == FetchedJson(t.http)
         closing == t.h = "delete"
         submitting == IF closing THEN CloseDeleteSubmitting(c, isSubmitting[c]) ELSE isSubmitting[c]
     IN /\ lastOp' = Set(NoOps, c, OpRecord(c, t, "list", IF closing THEN t.docId ELSE t.newId,
                                      [ok |-> FetchedOk(t.http), status |-> t.http.status,
                                       message |-> json.message]))
        /\ documents' = Set(documents, c, json.items)
        /\ errorMessage' = IF FetchedOk(t.http) THEN errorMessage ELSE Set(errorMessage, c, json.message)
        /\ isLoading' = Set(isLoading, c, LoadingAfterFetch(FetchedOk(t.http)))
        /\ documentToDelete' = IF closing THEN Set(documentToDelete, c, <<>>) ELSE documentToDelete
        /\ isSubmitting' = Set(isSubmitting, c, submitting)
        /\ Render(c, submitting, documents'[c], isLoading'[c], errorMessage'[c])
        /\ tasks' = [tasks EXCEPT ![c] = Rendered(RemoveAt(@, i))]
  /\ UNCHANGED <<variant, page, gateway, viewVars, storeVars, mockFileStore, showUploadModal, assigned, ops>>

\* ------------------------------------------------- facade, local (index.tsx)
\* encodeURIComponent, on the file names of FormInputs: a space becomes %20.
EncodeURIComponent(name) == IF name = "q1 plan.pdf" THEN "q1%20plan.pdf" ELSE name

LocalFileUrl(file) ==
  "https://cphjajpsplwz98pq.public.blob.vercel-storage.com/" \o EncodeURIComponent(file.name)

\* mockDatabase.findIndex(doc => doc.id === docId), 0 for -1
FindIndex(docs, docId) ==
  IF docId \in Ids(docs)
    THEN CHOOSE k \in 1..Len(docs) : /\ docs[k].id = docId
                                    /\ \A j \in 1..(k - 1) : docs[j].id # docId
    ELSE 0

\* saveDatabase(): setItem stores the list, or throws (quota) and is only logged.
SaveDatabase(c, saved) == storage' = IF saved THEN mockDatabase'[c] ELSE storage

\* The timers of a page all wait MOCK_API_DELAY: they fire in the order they were set.
TimerFires(c, pcs) ==
  /\ variant = "local"
  /\ tasks[c] # <<>>
  /\ tasks[c][1].pc \in pcs

\* The timer of mockApiCreateDocument fires, and handleFormSubmit resumes with the
\* result: on success handleUploadModalClose() and fetchDocuments() up to its timer.
LocalCreate(c) ==
  /\ page[c]
  /\ TimerFires(c, {"lcreate"})
  /\ LET t0 == tasks[c][1]
         t == [t0 EXCEPT !.readOk = TRUE, !.readMax = MaxOf(Ids(mockDatabase[c])),
                         !.before = mockDatabase[c]]
     IN IF FileInvalid(t.form.file)
          THEN /\ lastOp' = Set(NoOps, c, OpRecord(c, t, "create", 0, ValidationResult))
               /\ isSubmitting' = Set(isSubmitting, c, FALSE)
               /\ uploadBtnDisabled' = IF t.btnLive THEN Set(uploadBtnDisabled, c, FALSE)
                                                    ELSE uploadBtnDisabled
               /\ tasks' = [tasks EXCEPT ![c] = Tail(@)]
               /\ UNCHANGED <<storage, mockDatabase, lastId, mockFileStore, assigned, documents,
                              showUploadModal, documentToDelete, isLoading, errorMessage,
                              deleteCheckbox, deleteBtnDisabled, visible>>
          ELSE \E saved \in BOOLEAN :
               LET newDocument == NewDocument(t.form, lastId[c] + 1, LocalFileUrl(t.form.file))
                   done == [t EXCEPT !.newId = newDocument.id, !.blobUrl = newDocument.fileUrl,
                                     !.put = "applied", !.applied = 1]
               IN /\ lastId' = Set(lastId, c, lastId[c] + 1)
                  /\ mockFileStore' = [mockFileStore EXCEPT ![c] = MapSet(@, newDocument.id, t.form.file)]
                  /\ mockDatabase' = [mockDatabase EXCEPT ![c] = Append(@, newDocument)]
                  /\ SaveDatabase(c, saved)
                  /\ assigned' = Assign(assigned, newDocument.id)
                  /\ lastOp' = Set(NoOps, c, OpRecord(c, done, "create", newDocument.id,
                                                [ok |-> TRUE, status |-> 201, message |-> <<>>]))
                  /\ showUploadModal' = Set(showUploadModal, c, FALSE)
                  /\ isSubmitting' = Set(isSubmitting, c, FALSE)
                  /\ isLoading' = Set(isLoading, c, TRUE)
                  /\ errorMessage' = Set(errorMessage, c, NoMessage)
                  /\ Render(c, FALSE, documents[c], TRUE, NoMessage)
                  /\ tasks' = [tasks EXCEPT ![c] =
                                 Rendered(Append(Tail(@), LoadPhase(done)))]
                  /\ UNCHANGED <<documents, documentToDelete>>
  /\ UNCHANGED <<variant, page, gateway, viewVars, db, ops>>

\* The timer of mockApiDeleteDocument fires, and handleConfirmDelete resumes with the
\* result: on success handleCloseDeleteModal() and fetchDocuments() up to its timer.
LocalDelete(c) ==
  /\ page[c]
  /\ TimerFires(c, {"ldelete"})
  /\ LET t0 == tasks[c][1]
         index == FindIndex(mockDatabase[c], t0.docId)
         t == [t0 EXCEPT !.readOk = TRUE, !.readHit = index # 0,
                         !.readMax = MaxOf(Ids(mockDatabase[c])), !.before = mockDatabase[c]]
     IN IF index # 0
          THEN \E saved \in BOOLEAN :
               /\ mockDatabase' = [mockDatabase EXCEPT ![c] = RemoveAt(@, index)]
               /\ mockFileStore' = [mockFileStore EXCEPT ![c] = MapDelete(@, t.docId)]
               /\ SaveDatabase(c, saved)
               /\ lastOp' = Set(NoOps, c, OpRecord(c, [t EXCEPT !.put = "applied", !.applied = 1],
                                             "delete", t.docId,
                                             [ok |-> TRUE, status |-> 204, message |-> <<>>]))
               /\ documentToDelete' = Set(documentToDelete, c, <<>>)
               /\ isLoading' = Set(isLoading, c, TRUE)
               /\ errorMessage' = Set(errorMessage, c, NoMessage)
               /\ Render(c, isSubmitting[c], documents[c], TRUE, NoMessage)
               /\ tasks' = [tasks EXCEPT ![c] =
                              Rendered(Append(Tail(@), LoadPhase(t)))]
               /\ UNCHANGED <<documents, showUploadModal, isSubmitting>>
          ELSE /\ lastOp' = Set(NoOps, c, OpRecord(c, t, "delete", t.docId, NotFoundResult))
               /\ isSubmitting' = Set(isSubmitting, c, FALSE)
               /\ tasks' = [tasks EXCEPT ![c] = Tail(@)]
               /\ UNCHANGED <<storage, mockDatabase, mockFileStore, documents, showUploadModal,
                              documentToDelete, isLoading, errorMessage, domVars>>
  /\ UNCHANGED <<variant, page, gateway, viewVars, db, lastId, assigned, ops>>

\* The timer of mockApiFetchDocuments fires, and fetchDocuments resumes with a deep
\* copy of mockDatabase; the finally of the delete handler that awaited it follows.
LocalFetchDone(c) ==
  /\ page[c]
  /\ TimerFires(c, {"load"})
  /\ documents' = Set(documents, c, mockDatabase[c])
  /\ isLoading' = Set(isLoading, c, FALSE)
  /\ Render(c, isSubmitting[c], mockDatabase[c], FALSE, errorMessage[c])
  /\ isSubmitting' = IF tasks[c][1].h = "delete" THEN Set(isSubmitting, c, FALSE) ELSE isSubmitting
  /\ tasks' = [tasks EXCEPT ![c] = Rendered(Tail(@))]
  /\ lastOp' = Set(NoOps, c,
       LET t == tasks[c][1] IN
         OpRecord(c, t, "list", IF t.h = "delete" THEN t.docId ELSE t.newId,
                  [ok |-> TRUE, status |-> 200, message |-> <<>>]))
  /\ UNCHANGED <<variant, page, gateway, viewVars, storeVars, mockFileStore, showUploadModal, documentToDelete,
                errorMessage, assigned, ops>>

\* ------------------------------------------------- handlers of both variants
\* The File the user picked for the submission started as operation n.
Picked(form, n) ==
  IF form.file.present THEN [form EXCEPT !.file = [@ EXCEPT !.obj = n]] ELSE form

\* Submit of #upload-form (the form is there while the modal is shown; a disabled
\* submit button submits nothing).  Remote: isSubmitting = true, render(), and
\* mockApiCreateDocument up to its first await; a missing or empty file ends it at
\* once and the catch runs in the same turn.  Local: the button is disabled by hand
\* and the facade sets its timer.
HandleFormSubmit(c, form) ==
  /\ page[c]
  /\ showUploadModal[c]
  /\ ~uploadBtnDisabled[c]
  /\ IF isSubmitting[c]
       THEN UNCHANGED vars
       ELSE /\ ops < MaxOps
            /\ ops' = ops + 1
            /\ LET t == [NewTask(ops + 1, "create", "upload", Picked(form, ops + 1), 0)
                           EXCEPT !.nUpload = 1]
               IN IF variant = "remote"
                    THEN IF FileInvalid(form.file)
                           THEN /\ lastOp' = Set(NoOps, c,
                                       OpRecord(c, [t EXCEPT !.nUpload = 0], "create", 0, ValidationResult))
                                /\ tasks' = [tasks EXCEPT ![c] = Rendered(@)]
                                /\ Render(c, FALSE, documents[c], isLoading[c], errorMessage[c])
                                /\ UNCHANGED isSubmitting
                           ELSE /\ lastOp' = NoOps
                                /\ tasks' = [Starting(c, t) EXCEPT ![c] = Rendered(@)]
                                /\ isSubmitting' = Set(isSubmitting, c, TRUE)
                                /\ Render(c, TRUE, documents[c], isLoading[c], errorMessage[c])
                    ELSE /\ lastOp' = NoOps
                         /\ tasks' = Starting(c, [t EXCEPT !.pc = "lcreate", !.nUpload = 0,
                                                            !.btnLive = TRUE])
                         /\ isSubmitting' = Set(isSubmitting, c, TRUE)
                         /\ uploadBtnDisabled' = Set(uploadBtnDisabled, c, TRUE)
                         /\ UNCHANGED <<deleteCheckbox, deleteBtnDisabled, visible>>
            /\ UNCHANGED <<variant, page, gateway, viewVars, storeVars, mockFileStore, assigned, documents,
                           showUploadModal, documentToDelete, isLoading, errorMessage>>

\* Submit of #delete-form (there while documentToDelete is set; its button is
\* enabled by the checkbox only).  No look at isSubmitting.  Remote: render() and
\* mockApiDeleteDocument up to its read; local: the button is disabled by hand and
\* the facade sets its timer.
HandleConfirmDelete(c) ==
  /\ page[c]
  /\ documentToDelete[c] # <<>>
  /\ ~deleteBtnDisabled[c]
  /\ ops < MaxOps
  /\ ops' = ops + 1
  /\ isSubmitting' = Set(isSubmitting, c, TRUE)
  /\ lastOp' = NoOps
  /\ LET t == NewTask(ops + 1, "delete", "dget", NoForm, documentToDelete[c][1].id) IN
       IF variant = "remote"
         THEN /\ tasks' = [Starting(c, [t EXCEPT !.nGet = 1]) EXCEPT ![c] = Rendered(@)]
              /\ Render(c, TRUE, documents[c], isLoading[c], errorMessage[c])
         ELSE /\ tasks' = Starting(c, [t EXCEPT !.pc = "ldelete"])
              /\ deleteBtnDisabled' = Set(deleteBtnDisabled, c, TRUE)
              /\ UNCHANGED <<deleteCheckbox, uploadBtnDisabled, visible>>
  /\ UNCHANGED <<variant, page, gateway, viewVars, storeVars, mockFileStore, assigned, documents, showUploadModal,
                 documentToDelete, isLoading, errorMessage>>

\* Click on #upload-btn, disabled while isLoading.
HandleUploadModalOpen(c) ==
  /\ page[c]
  /\ ~isLoading[c]
  /\ showUploadModal' = Set(showUploadModal, c, TRUE)
  /\ Render(c, isSubmitting[c], documents[c], isLoading[c], errorMessage[c])
  /\ tasks' = [tasks EXCEPT ![c] = Rendered(@)]
  /\ lastOp' = NoOps
  /\ UNCHANGED <<variant, page, gateway, viewVars, storeVars, mockFileStore, documents, documentToDelete, isLoading,
                errorMessage, isSubmitting, assigned, ops>>

\* Close or cancel of the upload modal.
HandleUploadModalClose(c) ==
  /\ page[c]
  /\ showUploadModal[c]
  /\ showUploadModal' = Set(showUploadModal, c, FALSE)
  /\ isSubmitting' = Set(isSubmitting, c, FALSE)
  /\ Render(c, FALSE, documents[c], isLoading[c], errorMessage[c])
  /\ tasks' = [tasks EXCEPT ![c] = Rendered(@)]
  /\ lastOp' = NoOps
  /\ UNCHANGED <<variant, page, gateway, viewVars, storeVars, mockFileStore, documents, documentToDelete, isLoading,
                errorMessage, assigned, ops>>

\* Click on the delete button of the k-th listed document; the list is shown when
\* there is neither a load under way nor an error.
HandleRequestDelete(c, k) ==
  /\ page[c]
  /\ k \in DOMAIN documents[c]
  /\ ~isLoading[c]
  /\ errorMessage[c] = NoMessage
  /\ documentToDelete' = Set(documentToDelete, c,
                             <<documents[c][FindIndex(documents[c], documents[c][k].id)]>>)
  /\ Render(c, isSubmitting[c], documents[c], isLoading[c], errorMessage[c])
  /\ tasks' = [tasks EXCEPT ![c] = Rendered(@)]
  /\ lastOp' = NoOps
  /\ UNCHANGED <<variant, page, gateway, viewVars, storeVars, mockFileStore, documents, showUploadModal, isLoading,
                errorMessage, isSubmitting, assigned, ops>>

\* Close or cancel of the delete modal.
HandleCloseDeleteModal(c) ==
  /\ page[c]
  /\ documentToDelete[c] # <<>>
  /\ documentToDelete' = Set(documentToDelete, c, <<>>)
  /\ isSubmitting' = Set(isSubmitting, c, CloseDeleteSubmitting(c, isSubmitting[c]))
  /\ Render(c, isSubmitting'[c], documents[c], isLoading[c], errorMessage[c])
  /\ tasks' = [tasks EXCEPT ![c] = Rendered(@)]
  /\ lastOp' = NoOps
  /\ UNCHANGED <<variant, page, gateway, viewVars, storeVars, mockFileStore, documents, showUploadModal, isLoading,
                errorMessage, assigned, ops>>

\* Escape, or a click on a modal's overlay, with both modals open: both close.
HandleEscKey(c) ==
  /\ page[c]
  /\ showUploadModal[c]
  /\ documentToDelete[c] # <<>>
  /\ showUploadModal' = Set(showUploadModal, c, FALSE)
  /\ documentToDelete' = Set(documentToDelete, c, <<>>)
  /\ isSubmitting' = Set(isSubmitting, c, FALSE)
  /\ Render(c, FALSE, documents[c], isLoading[c], errorMessage[c])
  /\ tasks' = [tasks EXCEPT ![c] = Rendered(@)]
  /\ lastOp' = NoOps
  /\ UNCHANGED <<variant, page, gateway, viewVars, storeVars, mockFileStore, documents, isLoading, errorMessage,
                assigned, ops>>

\* Change of #delete-confirm-checkbox: the button follows the box.
HandleDeleteCheckboxChange(c) ==
  /\ page[c]
  /\ documentToDelete[c] # <<>>
  /\ deleteCheckbox' = Set(deleteCheckbox, c, ~deleteCheckbox[c])
  /\ deleteBtnDisabled' = Set(deleteBtnDisabled, c, ~deleteCheckbox'[c])
  /\ lastOp' = NoOps
  /\ UNCHANGED <<variant, page, gateway, viewVars, storeVars, mockFileStore, ctlVars, uploadBtnDisabled, visible,
                assigned, tasks, ops>>

\* updateDocumentsView() called by itself: nothing while loading or on an error,
\* else the container shows the documents that pass the filters f.
UpdateDocumentsView(c, f) ==
  visible' = IF isLoading[c] \/ errorMessage[c] # NoMessage
               THEN visible
               ELSE Set(visible, c, [listed |-> TRUE, docs |-> FilteredDocs(documents[c], f)])

\* Change of #division-filter or #status-filter (disabled while isLoading) to value.
HandleFilterChange(c, id, value) ==
  /\ page[c]
  /\ ~isLoading[c]
  /\ filters' = Set(filters, c,
                    IF id = "division-filter" THEN [filters[c] EXCEPT !.division = value]
                    ELSE IF id = "status-filter" THEN [filters[c] EXCEPT !.status = value]
                    ELSE filters[c])
  /\ UpdateDocumentsView(c, filters'[c])
  /\ lastOp' = NoOps
  /\ UNCHANGED <<variant, page, gateway, storeVars, mockFileStore, ctlVars, deleteCheckbox,
                 deleteBtnDisabled, uploadBtnDisabled, currentView, assigned, tasks, ops>>

\* A search that narrows the document list itself instead of the view of it.
HandleSearchNarrowing(c, text) ==
  /\ page[c]
  /\ ~isLoading[c]
  /\ filters' = Set(filters, c, [filters[c] EXCEPT !.search = text])
  /\ documents' = Set(documents, c, FilteredDocs(documents[c], filters'[c]))
  /\ UpdateDocumentsView(c, filters'[c])
  /\ lastOp' = NoOps
  /\ UNCHANGED <<variant, page, gateway, storeVars, mockFileStore, showUploadModal,
                 documentToDelete, isLoading, errorMessage, isSubmitting, deleteCheckbox,
                 deleteBtnDisabled, uploadBtnDisabled, currentView, assigned, tasks, ops>>

\* Input into #search-input (disabled while isLoading).
HandleSearch(c, text) ==
  /\ page[c]
  /\ ~isLoading[c]
  /\ filters' = Set(filters, c, [filters[c] EXCEPT !.search = text])
  /\ UpdateDocumentsView(c, filters'[c])
  /\ lastOp' = NoOps
  /\ UNCHANGED <<variant, page, gateway, storeVars, mockFileStore, ctlVars, deleteCheckbox,
                 deleteBtnDisabled, uploadBtnDisabled, currentView, assigned, tasks, ops>>

\* Click on #grid-view-btn or #list-view-btn (disabled while isLoading).
SetView(c, view) ==
  /\ page[c]
  /\ ~isLoading[c]
  /\ currentView' = Set(currentView, c, view)
  /\ UpdateDocumentsView(c, filters[c])
  /\ lastOp' = NoOps
  /\ UNCHANGED <<variant, page, gateway, storeVars, mockFileStore, ctlVars, deleteCheckbox,
                 deleteBtnDisabled, uploadBtnDisabled, filters, assigned, tasks, ops>>

\* A handleDocumentOpen that never looks into the cache.
OpenTargetUrlOnly(doc, cache) == [file |-> NoFile, url |-> doc.fileUrl]

\* What handleDocumentOpen hands to window.open for doc: the object URL of the File
\* that mockFileStore holds under doc.id, or else doc.fileUrl.
OpenTarget(doc, cache) ==
  IF doc.id \in DOMAIN cache
    THEN [file |-> cache[doc.id], url |-> ""]
    ELSE [file |-> NoFile, url |-> doc.fileUrl]

\* Click (or Enter, or Space) on the k-th item of the list shown: its data-doc-id
\* is looked up in documents, and nothing happens if it is not there.
HandleDocumentOpen(c, k) ==
  /\ page[c]
  /\ visible[c].listed
  /\ k \in DOMAIN visible[c].docs
  /\ LET docId == visible[c].docs[k].id
         at == FindIndex(documents[c], docId)
     IN lastOp' = IF at = 0 THEN NoOps
                  ELSE LET target == OpenTarget(documents[c][at], mockFileStore[c])
                       IN Set(NoOps, c, [NoOp EXCEPT !.op = "open", !.id = docId,
                                                     !.file = target.file, !.url = target.url,
                                                     !.cache = mockFileStore[c]])
  /\ UNCHANGED <<variant, page, gateway, viewVars, storeVars, mockFileStore, ctlVars, domVars,
                 assigned, tasks, ops>>

\* The PUTs a page had sent stay on their way when the page goes.
Orphans(ts) ==
  LET sent == SelectSeq(ts, LAMBDA t : t.pc \in {"cput", "dput"} /\ t.net = "sent")
  IN [k \in DOMAIN sent |-> [sent[k] EXCEPT !.orphan = TRUE]]

\* The page is loaded again: the module state starts over (the file cache with it),
\* loadDatabase() reads localStorage (local), fetchDocuments() runs up to its await.
Reload(c) ==
  /\ page[c]
  /\ ops < MaxOps
  /\ ops' = ops + 1
  /\ mockDatabase' = IF variant = "local" THEN Set(mockDatabase, c, storage) ELSE mockDatabase
  /\ lastId' = IF variant = "local" THEN Set(lastId, c, MaxOf(Ids(storage))) ELSE lastId
  /\ mockFileStore' = Set(mockFileStore, c, EmptyStore)
  /\ documents' = Set(documents, c, <<>>)
  /\ showUploadModal' = Set(showUploadModal, c, FALSE)
  /\ documentToDelete' = Set(documentToDelete, c, <<>>)
  /\ isLoading' = Set(isLoading, c, TRUE)
  /\ errorMessage' = Set(errorMessage, c, NoMessage)
  /\ isSubmitting' = Set(isSubmitting, c, FALSE)
  /\ Render(c, FALSE, <<>>, TRUE, NoMessage)
  /\ lastOp' = NoOps
  /\ tasks' = [tasks EXCEPT ![c] = Append(Orphans(@), NewTask(ops + 1, "load", "load", NoForm, 0))]
  /\ filters' = Set(filters, c, NeutralFilters)
  /\ currentView' = Set(currentView, c, "grid")
  /\ UNCHANGED <<variant, page, gateway, db, storage, assigned>>

\* ------------------------------------------------- the upload endpoint (server side)
\* res.status(status).json({error}) / NextResponse.json({error}, {status})
ErrorReply(status) == [status |-> status, body |-> "error", url |-> ""]

\* res.status(200).json(blob) / NextResponse.json(blob)
BlobReply(url) == [status |-> 200, body |-> "blob", url |-> url]

\* The answer of the platform when no handler answered: the method has no handler
\* (405), the handler threw (500), the function is not there (404).
PlatformReply(status) == [status |-> status, body |-> "none", url |-> ""]

\* What a handler has done when it returns or reaches `await put(...)`:
\*   put   the name it passed to put() ("given", "missing"), <<>> when it made no call
\*   reply its response, NoResponse while it awaits put()
Replied(reply) == [put |-> <<>>, reply |-> reply]

Forwarded(name) == [put |-> <<name>>, reply |-> NoResponse]

\* src/api/upload.js declares `const token` twice in one block (lines 15 and 26), an
\* early error of the language: only a build that rewrites const to var gives a module
\* that loads, and any other leaves the platform to answer for it.
ApiLoads(g) == g.loads

\* src/api/upload.js handler, up to put(filename, req, ...)
ApiHandler(method, file, token) ==
  IF method # "POST" THEN Replied(ErrorReply(405))
  ELSE IF ~token THEN Replied(ErrorReply(500))
  ELSE IF file # "named" THEN Replied(ErrorReply(400))
  ELSE Forwarded("given")

\* src/app/api/upload/upload.js handler, up to put(file.name, file, ...): a missing
\* token and the TypeError of undefined.name are thrown into its catch.
BodyHandler(method, file, token) ==
  IF method # "POST" THEN Replied(ErrorReply(405))
  ELSE IF ~token THEN Replied(ErrorReply(500))
  ELSE IF file = "none" THEN Replied(ErrorReply(500))
  ELSE Forwarded(IF file = "named" THEN "given" ELSE "missing")

\* src/app/api/upload/route.ts POST, up to put(file.name, file, ...): the route has a
\* handler for POST only, and nothing catches the TypeError of null.name.
RoutePost(method, file, token) ==
  IF method # "POST" THEN Replied(PlatformReply(405))
  ELSE IF ~token THEN Replied(ErrorReply(500))
  ELSE IF file = "none" THEN Replied(PlatformReply(500))
  ELSE Forwarded(IF file = "named" THEN "given" ELSE "missing")

\* The handler resumes from put(): its blob, or its error - caught by the handlers
\* that have a catch, left to the platform by route.ts.
AfterPut(kind, ok, url) ==
  IF ok THEN BlobReply(url)
  ELSE IF kind = "route" THEN PlatformReply(500)
  ELSE ErrorReply(500)

\* A request reaches the endpoint `kind`, and its handler runs up to its response or
\* to its await of put().
GatewayReceive(kind, method, file) ==
  /\ gateway.phase \in {"idle", "answered"}
  /\ gateway.n < MaxOps
  /\ LET did == IF kind = "api" THEN ApiHandler(method, file, gateway.token)
                ELSE IF kind = "body" THEN BodyHandler(method, file, gateway.token)
                ELSE RoutePost(method, file, gateway.token)
         here == [gateway EXCEPT !.n = @ + 1, !.kind = kind, !.method = method,
                                 !.file = file, !.blob = "none"]
     IN IF kind = "api" /\ ~ApiLoads(gateway)
          THEN \E status \in {404, 500} :
                 gateway' = [here EXCEPT !.phase = "answered", !.put = <<>>,
                                         !.response = PlatformReply(status)]
          ELSE gateway' = [here EXCEPT !.phase = IF did.put = <<>> THEN "answered" ELSE "forwarding",
                                       !.put = did.put, !.response = did.reply]
  /\ UNCHANGED appVars

\* Blob storage answers the put(): the blob with its url, or an error.
BlobAnswers(ok) ==
  /\ gateway.phase = "forwarding"
  /\ gateway' = [gateway EXCEPT !.phase = "answered",
                                !.blob = IF ok THEN "stored" ELSE "failed",
                                !.response = AfterPut(gateway.kind, ok, BlobUrl(gateway.n))]
  /\ UNCHANGED appVars

\* ------------------------------------------------------------------ behaviours
\* The handler invocations a page can have suspended: its load and the operations.
TaskSlots == 1..(MaxOps + 1)

\* The positions of a listed collection: the seeds and a record per operation.
DocSlots == 1..(MaxOps + 2)

Next ==
  \E c \in Clients :
    \/ \E form \in FormInputs : HandleFormSubmit(c, form)
    \/ HandleConfirmDelete(c)
    \/ HandleUploadModalOpen(c)
    \/ HandleUploadModalClose(c)
    \/ \E k \in DocSlots : HandleRequestDelete(c, k)
    \/ HandleCloseDeleteModal(c)
    \/ HandleEscKey(c)
    \/ HandleDeleteCheckboxChange(c)
    \/ Reload(c)
    \/ LocalCreate(c)
    \/ LocalDelete(c)
    \/ LocalFetchDone(c)
    \/ \E i \in TaskSlots : ServeGet(c, i)
    \/ \E i \in TaskSlots : ServePut(c, i)
    \/ \E i \in TaskSlots : CreateAfterUpload(c, i)
    \/ \E i \in TaskSlots : CreateAfterGet(c, i)
    \/ \E i \in TaskSlots : CreateAfterPut(c, i)
    \/ \E i \in TaskSlots : DeleteAfterGet(c, i)
    \/ \E i \in TaskSlots : DeleteAfterPut(c, i)
    \/ \E i \in TaskSlots : FetchDocumentsDone(c, i)

\* One page on the store.
Spec == Init /\ [][Next]_vars

\* Two pages on the same store.
SpecShared == InitShared /\ [][Next]_vars

\* The responses arrive: every read in flight is answered (with the collection or
\* with a failure), the handler that awaits an answer resumes with it, and the
\* timers of the local facade fire.  What the user does is left to the user.
Responsive ==
  \A c \in Clients :
    /\ \A i \in TaskSlots : WF_vars(ServeGet(c, i)) /\ WF_vars(FetchDocumentsDone(c, i))
    /\ WF_vars(LocalCreate(c))
    /\ WF_vars(LocalDelete(c))
    /\ WF_vars(LocalFetchDone(c))

\* One page on a store that holds one record.
InitLive ==
  /\ InitStart({"c1"}, {[exists |-> TRUE, record |-> <<SeedDoc(1)>>]}, {<<SeedDoc(1)>>})
  /\ gateway = QuietGateway

\* One page on a store that answers.
SpecLive == InitLive /\ [][Next]_vars /\ Responsive

\* Every request resolves: the gateway and the store answer the upload, the reads
\* and the PUTs, and the facade call that awaits an answer resumes with it.
Resolving ==
  /\ Responsive
  /\ \A c \in Clients : \A i \in TaskSlots :
       /\ WF_vars(ServePut(c, i))
       /\ WF_vars(CreateAfterUpload(c, i))
       /\ WF_vars(CreateAfterGet(c, i))
       /\ WF_vars(CreateAfterPut(c, i))
       /\ WF_vars(DeleteAfterGet(c, i))
       /\ WF_vars(DeleteAfterPut(c, i))

\* The steps of a user who also opens the documents listed.
NextOpen ==
  \/ Next
  \/ \E c \in Clients : \E k \in DocSlots : HandleDocumentOpen(c, k)

\* One page, on a store that holds one record, whose user opens documents.
SpecOpen == InitLive /\ [][NextOpen]_vars

\* One page whose every request resolves.
SpecResolving == InitLive /\ [][Next]_vars /\ Resolving

\* The steps of a user who looks through the collection: the loads, the filters, the
\* search, the view mode.
NextView ==
  \E c \in Clients :
    \/ \E value \in {"all"} \cup Divisions : HandleFilterChange(c, "division-filter", value)
    \/ \E value \in {"all"} \cup Statuses : HandleFilterChange(c, "status-filter", value)
    \/ \E text \in SearchTexts : HandleSearch(c, text)
    \/ \E view \in {"grid", "list"} : SetView(c, view)
    \/ Reload(c)
    \/ LocalFetchDone(c)
    \/ \E i \in TaskSlots : ServeGet(c, i)
    \/ \E i \in TaskSlots : FetchDocumentsDone(c, i)

\* One page whose user filters and searches.
SpecView == InitView /\ [][NextView]_vars

\* The upload endpoint by itself: no page is open; the token is set or not, and
\* src/api/upload.js was built into something that loads or not.
InitGateway ==
  /\ InitStart({}, {[exists |-> FALSE, record |-> <<>>]}, {<<>>})
  /\ variant = "remote"
  /\ \E token, loads \in BOOLEAN :
       gateway = [QuietGateway EXCEPT !.token = token, !.loads = loads]

NextGateway ==
  \/ \E kind \in GatewayKinds : \E method \in Methods : \E file \in FileKinds :
       GatewayReceive(kind, method, file)
  \/ \E ok \in BOOLEAN : BlobAnswers(ok)

\* The requests the upload endpoint serves.
SpecGateway == InitGateway /\ [][NextGateway]_vars

\* Two pages of the remote variant on a bin that holds one record, once the first
\* fetchDocuments() of each has completed and listed it.
InitRace ==
  /\ variant = "remote"
  /\ page = [c \in Clients |-> TRUE]
  /\ db = [exists |-> TRUE, record |-> <<SeedDoc(1)>>]
  /\ storage = <<>>
  /\ mockDatabase = [c \in Clients |-> <<>>]
  /\ lastId = [c \in Clients |-> 0]
  /\ assigned = SeedLog(db.record)
  /\ mockFileStore = [c \in Clients |-> EmptyStore]
  /\ documents = [c \in Clients |-> db.record]
  /\ showUploadModal = [c \in Clients |-> FALSE]
  /\ documentToDelete = [c \in Clients |-> <<>>]
  /\ isLoading = [c \in Clients |-> FALSE]
  /\ errorMessage = [c \in Clients |-> NoMessage]
  /\ isSubmitting = [c \in Clients |-> FALSE]
  /\ deleteCheckbox = [c \in Clients |-> FALSE]
  /\ deleteBtnDisabled = [c \in Clients |-> TRUE]
  /\ uploadBtnDisabled = [c \in Clients |-> FALSE]
  /\ visible = [c \in Clients |-> ViewOf(db.record, FALSE, NoMessage, NeutralFilters)]
  /\ filters = [c \in Clients |-> NeutralFilters]
  /\ currentView = [c \in Clients |-> "grid"]
  /\ lastOp = NoOps
  /\ tasks = [c \in Clients |-> <<>>]
  /\ ops = 0
  /\ gateway = QuietGateway

\* The steps of two users who each go straight through a flow (open, fill, submit;
\* request, check, confirm) and of the store that answers them; the cancels and the
\* reload, which do not concern the other page, are steps of Next.
NextRace ==
  \E c \in Clients :
    \/ \E form \in FormInputs : HandleFormSubmit(c, form)
    \/ HandleConfirmDelete(c)
    \/ HandleUploadModalOpen(c)
    \/ \E k \in DocSlots : HandleRequestDelete(c, k)
    \/ HandleDeleteCheckboxChange(c)
    \/ \E i \in TaskSlots : ServeGet(c, i)
    \/ \E i \in TaskSlots : ServePut(c, i)
    \/ \E i \in TaskSlots : CreateAfterUpload(c, i)
    \/ \E i \in TaskSlots : CreateAfterGet(c, i)
    \/ \E i \in TaskSlots : CreateAfterPut(c, i)
    \/ \E i \in TaskSlots : DeleteAfterGet(c, i)
    \/ \E i \in TaskSlots : DeleteAfterPut(c, i)
    \/ \E i \in TaskSlots : FetchDocumentsDone(c, i)

\* Two pages racing on the shared bin.
SpecRace == InitRace /\ [][NextRace]_vars

\* ------------------------------------------------------------------ properties
\* C1: in every reachable state, whatever creates and deletes were interleaved and
\* whichever of them failed, no two records of the stored collection share an id:
\* in the bin (remote), in localStorage and in each page's in-memory list (local).
C1_UniqueStoredIds ==
  /\ UniqueIds(db.record)
  /\ UniqueIds(storage)
  /\ \A c \in Clients : UniqueIds(mockDatabase[c])

\* Two creates that read the same collection were both applied: the id they both
\* derived was given twice, and the stored collection holds it next to other records.
C1_RacingCreatesStored ==
  /\ Len(db.record) >= 2
  /\ \E id \in Ids(db.record) : Given(assigned, id) >= 2

\* C2 (as the specification states it): every successful create gives the new record
\* the id max(ids of the stored collection when the create read it, 0) + 1, so id 1
\* on an empty collection.
C2_NewIdIsMaxPlusOne ==
  \A c \in Clients :
    (lastOp[c].op = "create" /\ lastOp[c].result.ok) => lastOp[c].id = lastOp[c].readMax + 1

\* C3 (as the specification states it, taken where no read fails and no other create
\* or delete is under way): the id a successful create gives was never given to an
\* earlier created record.
C3_IdsNeverReused ==
  \A c \in Clients :
    (lastOp[c].op = "create" /\ lastOp[c].result.ok /\ lastOp[c].alone /\ lastOp[c].readOk)
      => Given(assigned, lastOp[c].id) <= 1

\* C3 (amended): a create gives the new record an id above every id of the collection
\* it appends to - remote: the collection its read returned, a failed read counting
\* as empty; local: the in-memory list, which the counter lastId never falls below -
\* and appends it last; an id is given again once no record of that collection
\* holds it or a higher one.
C3_NewIdAboveKept ==
  \A c \in Clients :
    /\ \A i \in DOMAIN tasks[c] :
         tasks[c][i].pc = "cput" =>
           LET b == tasks[c][i].body IN
             /\ b # <<>>
             /\ b[Len(b)].id = tasks[c][i].newId
             /\ \A k \in 1..(Len(b) - 1) : b[k].id < tasks[c][i].newId
    /\ variant = "local" => lastId[c] >= MaxOf(Ids(mockDatabase[c]))

\* A create that ran alone and whose read was answered has just succeeded with an id
\* that a record created before it (and deleted since) already had.
C3_HighestIdGivenAgain ==
  \E c \in Clients :
    /\ lastOp[c].op = "create"
    /\ lastOp[c].result.ok
    /\ lastOp[c].alone
    /\ lastOp[c].readOk
    /\ Given(assigned, lastOp[c].id) >= 2

\* C4: a create whose file is absent or has zero length ends with the validation
\* error, has issued no upload, no read and no write, and the step that ends it
\* leaves the store as it was.
C4_InvalidFileRejected ==
  \A c \in Clients :
    (lastOp[c].op = "create" /\ (~lastOp[c].file.present \/ lastOp[c].file.size = 0)) =>
      /\ ~lastOp[c].result.ok
      /\ lastOp[c].result.status = 400
      /\ lastOp[c].result.message = <<"File is required and cannot be empty.">>
      /\ lastOp[c].nUpload = 0
      /\ lastOp[c].nGet = 0
      /\ lastOp[c].nPut = 0
      /\ lastOp[c].applied = 0
      /\ StoreOf(c) = lastOp[c].stored

\* A create with a zero-length file has just been rejected while the store holds a
\* record.
C4_EmptyFileRejected ==
  \E c \in Clients :
    /\ lastOp[c].op = "create"
    /\ lastOp[c].file.present
    /\ lastOp[c].file.size = 0
    /\ lastOp[c].stored.bin.record \o lastOp[c].stored.memory # <<>>

\* C5: a create whose upload got a non-success answer, no answer, or an answer
\* without a url ends with an upload-stage error, has issued no read and no write,
\* and the step that ends it leaves the store as it was.
C5_UploadFailureStopsCreate ==
  \A c \in Clients :
    (lastOp[c].op = "create" /\ lastOp[c].upload \in {"http_error", "thrown", "no_url"}) =>
      /\ ~lastOp[c].result.ok
      /\ Head(lastOp[c].result.message) = "File upload failed"
      /\ lastOp[c].nGet = 0
      /\ lastOp[c].nPut = 0
      /\ lastOp[c].applied = 0
      /\ StoreOf(c) = lastOp[c].stored

\* A create has just failed on an upload answer that carried no url, while the
\* store holds a record.
C5_UploadWithoutUrl ==
  \E c \in Clients :
    /\ lastOp[c].op = "create"
    /\ lastOp[c].upload = "no_url"
    /\ lastOp[c].stored.bin.record # <<>>

\* C6: a create whose upload succeeded and whose PUT failed ends with a
\* metadata-stage error, whose message does not start as an upload-stage error's
\* does; its write was not applied, and if it ran alone on an answered read the
\* store still holds exactly the collection it read.
C6_PutFailureIsMetadataError ==
  \A c \in Clients :
    (lastOp[c].op = "create" /\ lastOp[c].upload = "ok" /\ lastOp[c].put = "http_error") =>
      /\ ~lastOp[c].result.ok
      /\ Head(lastOp[c].result.message) = "Metadata update failed"
      /\ Head(lastOp[c].result.message) # "File upload failed"
      /\ lastOp[c].applied = 0
      /\ StoreOf(c) = lastOp[c].stored
      /\ (lastOp[c].alone /\ lastOp[c].readOk) => db.record = lastOp[c].before

\* A create that ran alone on a store holding a record has just failed on its PUT.
C6_PutFailedAlone ==
  \E c \in Clients :
    /\ lastOp[c].op = "create"
    /\ lastOp[c].put = "http_error"
    /\ lastOp[c].alone
    /\ lastOp[c].readOk
    /\ lastOp[c].before # <<>>

\* C7: a delete whose read was answered with a collection that has no record of its
\* id ends with the not-found error, has issued no write, and the step that ends it
\* leaves the store and the page's file cache as they were.
C7_DeleteOfMissingId ==
  \A c \in Clients :
    (lastOp[c].op = "delete" /\ lastOp[c].readOk /\ ~lastOp[c].readHit) =>
      /\ ~lastOp[c].result.ok
      /\ lastOp[c].result.status = 404
      /\ lastOp[c].result.message = <<"Document not found">>
      /\ lastOp[c].nPut = 0
      /\ lastOp[c].applied = 0
      /\ StoreOf(c) = lastOp[c].stored
      /\ mockFileStore[c] = lastOp[c].cache

\* A delete has just been answered not-found.
C7_DeleteNotFound ==
  \E c \in Clients :
    /\ lastOp[c].op = "delete"
    /\ lastOp[c].readOk
    /\ ~lastOp[c].readHit

\* C8: remote, one page, no other create or delete under way since the create
\* started: the list that follows the successful create, when it is answered, holds
\* a record with the id of the create whose fileUrl is the url the upload returned.
C8_ListAfterCreate ==
  \A c \in Clients :
    (/\ variant = "remote"
     /\ lastOp[c].op = "list"
     /\ lastOp[c].after = "create"
     /\ lastOp[c].result.ok
     /\ lastOp[c].alone) =>
      /\ lastOp[c].url = BlobUrl(lastOp[c].tid)
      /\ \E k \in DOMAIN documents[c] :
           /\ documents[c][k].id = lastOp[c].id
           /\ documents[c][k].fileUrl = lastOp[c].url

\* The list that follows a create which ran alone has just been answered, with more
\* than the new record in it.
C8_ListedAfterCreate ==
  \E c \in Clients :
    /\ variant = "remote"
    /\ lastOp[c].op = "list"
    /\ lastOp[c].after = "create"
    /\ lastOp[c].result.ok
    /\ lastOp[c].alone
    /\ Len(documents[c]) >= 2

\* C9: one page, no other create or delete under way since the delete started: the
\* list that follows the successful delete of an id, when it is answered, is the
\* collection the delete read without the record of that id: the id is gone, the
\* other records are there unchanged and in the same order.
C9_ListAfterDelete ==
  \A c \in Clients :
    (/\ lastOp[c].op = "list"
     /\ lastOp[c].after = "delete"
     /\ lastOp[c].result.ok
     /\ lastOp[c].alone) =>
      LET prev == lastOp[c].before
          kept == {k \in DOMAIN prev : prev[k].id # lastOp[c].id}
      IN /\ lastOp[c].id \notin Ids(documents[c])
         /\ Len(documents[c]) = Cardinality(kept)
         /\ \A k \in kept : \E j \in DOMAIN documents[c] : documents[c][j] = prev[k]
         /\ \A j1, j2 \in DOMAIN documents[c] :
              j1 < j2 => \E k1, k2 \in kept :
                           k1 < k2 /\ prev[k1] = documents[c][j1] /\ prev[k2] = documents[c][j2]

\* The list that follows a delete which ran alone on a collection of several records
\* has just been answered.
C9_ListedAfterDelete ==
  \E c \in Clients :
    /\ lastOp[c].op = "list"
    /\ lastOp[c].after = "delete"
    /\ lastOp[c].result.ok
    /\ lastOp[c].alone
    /\ Len(lastOp[c].before) >= 2

\* C10 (as the specification states it): while isSubmitting is true no submission
\* starts a create or a delete, that is, issues an upload, a read or a write.
C10_SubmissionIgnored ==
  [][\A c \in Clients :
       isSubmitting[c] =>
         ~(/\ ops' = ops + 1
           /\ \E i \in DOMAIN tasks'[c] :
                /\ tasks'[c][i].tid = ops'
                /\ tasks'[c][i].h \in {"create", "delete"})]_vars

\* C11 (as the specification states it): on one page, whatever the user does and
\* whenever the answers arrive, at most one create or delete call of the facade is
\* under way (started by this page instance and not yet resolved).
C11_OneInFlight ==
  \A c \in Clients :
    Cardinality({i \in DOMAIN tasks[c] :
                   /\ tasks[c][i].h \in {"create", "delete"}
                   /\ tasks[c][i].pc # "load"
                   /\ ~tasks[c][i].orphan}) <= 1

\* C12: no create or delete is ever answered with a conflict: the statuses are those
\* of success, validation, not-found and failure, and a call reports success exactly
\* when the store applied its own PUT, whatever other pages wrote between its read
\* and its write.
C12_NoConflictDetected ==
  \A c \in Clients :
    lastOp[c].op \in {"create", "delete"} =>
      /\ lastOp[c].result.status \in {201, 204, 400, 404, 500}
      /\ lastOp[c].result.ok <=> lastOp[c].put = "applied"

\* Lost update: page d's create or delete has reported success (d awaits the list
\* that follows it), page c's create or delete, under way at the same time, aimed at
\* another record and answered with the collection on its read, has just reported
\* success too, and the bin, replaced last by c's PUT, lacks d's change: the record d
\* created (known by the url of its upload) is not there, or the record d deleted is
\* there as it was read.
C12_LostUpdate ==
  \E c, d \in Clients :
    /\ c # d
    /\ lastOp[c].op \in {"create", "delete"}
    /\ lastOp[c].result.ok
    /\ lastOp[c].readOk
    /\ ~lastOp[c].alone
    /\ \E i \in DOMAIN tasks[d] :
         /\ tasks[d][i].h \in {"create", "delete"}
         /\ tasks[d][i].pc = "load"
         /\ lastOp[c].op = "delete" => lastOp[c].id # tasks[d][i].newId
         /\ LET t == tasks[d][i] IN
              IF t.h = "create"
                THEN \A k \in DOMAIN db.record : db.record[k].fileUrl # t.blobUrl
                ELSE \E k \in DOMAIN db.record : \E j \in DOMAIN t.before :
                       /\ t.before[j].id = t.docId
                       /\ db.record[k] = t.before[j]

\* C13: the load whose read the store answered 404 ends as a successful read of the
\* empty collection (documents = [], errorMessage = null, list shown), and the load
\* whose read got any other non-success answer ends with an error message and no
\* documents.
C13_NotFoundIsEmpty ==
  \A c \in Clients :
    (lastOp[c].op = "list" /\ variant = "remote") =>
      /\ lastOp[c].result.status = 404 =>
           /\ lastOp[c].result.ok
           /\ documents[c] = <<>>
           /\ errorMessage[c] = NoMessage
           /\ ~isLoading[c]
      /\ lastOp[c].result.status \notin ((200..299) \cup {404}) =>
           /\ ~lastOp[c].result.ok
           /\ errorMessage[c] # NoMessage
           /\ documents[c] = <<>>
           /\ ~isLoading[c]

\* A load has just ended on a 404 of the store.
C13_LoadedNotFound ==
  \E c \in Clients :
    /\ lastOp[c].op = "list"
    /\ lastOp[c].result.status = 404

\* C14: a step starts a delete (a new delete call of the facade is under way after
\* it) only from a state in which the delete modal is rendered with its confirmation
\* box checked; the confirm button is enabled only while the box is checked, so one
\* click on the confirm button of a modal just opened or rendered again starts none.
C14_DeleteNeedsCheckedBox ==
  [][\A c \in Clients :
       /\ ~deleteBtnDisabled[c] => (deleteCheckbox[c] /\ documentToDelete[c] # <<>>)
       /\ (/\ ops' = ops + 1
           /\ \E i \in DOMAIN tasks'[c] :
                /\ tasks'[c][i].tid = ops'
                /\ tasks'[c][i].h = "delete")
          => (deleteCheckbox[c] /\ documentToDelete[c] # <<>>)]_vars

\* A delete has just been started - its read or its timer is pending - on a page
\* that had rendered the modal again (a first delete was confirmed before).
C14_DeleteStartedAgain ==
  \E c \in Clients : \E i, j \in DOMAIN tasks[c] :
    /\ i < j
    /\ tasks[c][i].h = "delete"
    /\ tasks[c][j].h = "delete"
    /\ tasks[c][j].pc \in {"dget", "ldelete"}
    /\ tasks[c][j].net = "sent"

\* C15: whenever the container shows the list, it shows exactly the documents that
\* pass all three tests - division filter "all" or the record's division, status
\* filter "all" or the record's status, search text found in the record's name or
\* file name with the cases of the letters ignored - in the order of documents.
C15_VisibleIsFiltered ==
  \A c \in Clients :
    visible[c].listed =>
      LET f == filters[c]
          docs == documents[c]
          SameLetter(a, b) ==
            \/ a = b
            \/ \E i \in DOMAIN UpperLetters :
                 {a, b} = {UpperLetters[i], LowerLetters[i]}
          Found(text, str) ==
            \E at \in 0..(Len(str) - Len(text)) :
              \A j \in 1..Len(text) : SameLetter(str[at + j], text[j])
          passes == {k \in DOMAIN docs :
                       /\ f.division = "all" \/ docs[k].division = f.division
                       /\ f.status = "all" \/ docs[k].status = f.status
                       /\ \/ Found(Chars(f.search), Chars(docs[k].name))
                          \/ Found(Chars(f.search), Chars(docs[k].fileName))}
          shown == visible[c].docs
      IN /\ Len(shown) = Cardinality(passes)
         /\ \A k \in passes : \E j \in DOMAIN shown : shown[j] = docs[k]
         /\ \A j1, j2 \in DOMAIN shown :
              j1 < j2 => \E k1, k2 \in passes :
                           k1 < k2 /\ docs[k1] = shown[j1] /\ docs[k2] = shown[j2]

\* The list is shown under a search text in capitals and a division filter; some
\* documents pass and some do not.
C15_SearchedAndFiltered ==
  \E c \in Clients :
    /\ visible[c].listed
    /\ filters[c].search = "SEED"
    /\ filters[c].division # "all"
    /\ visible[c].docs # <<>>
    /\ Len(visible[c].docs) < Len(documents[c])

\* C16: under the neutral filter {division: "all", status: "all", search: ""} the
\* list shown is the document list itself: same records, same order, same length.
C16_NeutralFilterShowsAll ==
  \A c \in Clients :
    (visible[c].listed /\ filters[c] = NeutralFilters) => visible[c].docs = documents[c]

\* The list of three documents is shown under the neutral filter, computed anew by
\* updateDocumentsView() when the view mode was switched.
C16_BackToNeutral ==
  \E c \in Clients :
    /\ visible[c].listed
    /\ filters[c] = NeutralFilters
    /\ currentView[c] = "list"
    /\ Len(documents[c]) = 3

\* C17 (as the specification states it): a handler of the upload endpoint calls
\* put() only for a POST request, with the write token set and a file name given.
C17_ForwardsOnlyNamedPost ==
  gateway.put # <<>> =>
    /\ gateway.method = "POST"
    /\ gateway.token
    /\ gateway.file = "named"

\* C18 (as the specification states it): the endpoint answers 405 to a request that
\* is not a POST, 500 with {error} when the token is missing, 400 when the file name
\* is missing, 500 with {error} when put() fails, and else 200 with the blob's url.
C18_GatewayStatuses ==
  gateway.phase = "answered" =>
    LET r == gateway.response IN
      IF gateway.method # "POST" THEN r.status = 405
      ELSE IF ~gateway.token THEN r.status = 500 /\ r.body = "error"
      ELSE IF gateway.file # "named" THEN r.status = 400
      ELSE IF gateway.blob = "failed" THEN r.status = 500 /\ r.body = "error"
      ELSE r.status = 200 /\ r.body = "blob" /\ r.url = BlobUrl(gateway.n)

\* C19 (as the specification states it): a create whose read of the collection got
\* an answer other than the collection or not-found sends no PUT and ends with a
\* metadata-stage error, and the records that were stored are stored still.
C19_FailedReadStopsCreate ==
  \A c \in Clients :
    /\ \A i \in DOMAIN tasks[c] :
         (tasks[c][i].h = "create" /\ tasks[c][i].pc = "cput") => tasks[c][i].readOk
    /\ (lastOp[c].op = "create" /\ lastOp[c].nGet = 1 /\ ~lastOp[c].readOk) =>
         /\ ~lastOp[c].result.ok
         /\ Head(lastOp[c].result.message) = "Metadata update failed"
         /\ lastOp[c].nPut = 0
         /\ \A k \in DOMAIN lastOp[c].stored.bin.record :
              \E j \in DOMAIN db.record : db.record[j] = lastOp[c].stored.bin.record[k]

\* C20 (as the specification states it): a step takes a record out of the stored
\* collection, or changes a field of it, only if it applies the PUT of a delete
\* whose target is that record; no create, failed delete, load or filter change does.
C20_OnlyDeleteRemoves ==
  [][\A k \in DOMAIN db.record :
       \/ \E j \in DOMAIN db'.record : db'.record[j] = db.record[k]
       \/ \E c \in Clients : \E i \in DOMAIN tasks[c] :
            /\ tasks[c][i].pc = "dput"
            /\ tasks[c][i].net = "sent"
            /\ tasks[c][i].docId = db.record[k].id
            /\ db'.record = tasks[c][i].body]_vars

\* C21: when a load completes successfully, documents is the list that list()
\* returned (remote: the record of the answer, none on 404; local: the in-memory
\* list) and errorMessage is null; when it completes with a failure, errorMessage is
\* the failure's message and documents is empty.
C21_LoadOutcome ==
  \A c \in Clients :
    LET o == lastOp[c]
        returned == IF variant = "local" THEN o.stored.memory
                    ELSE IF o.http.status = 404 THEN <<>> ELSE o.http.record
    IN o.op = "list" =>
         IF o.result.ok
           THEN /\ documents[c] = returned
                /\ errorMessage[c] = NoMessage
           ELSE /\ errorMessage[c] = o.result.message
                /\ documents[c] = <<>>

\* C22: a load sets isLoading when it starts, and once its list request has
\* resolved, with success or with failure, isLoading is false: on a page whose
\* responses arrive, isLoading = true always leads to isLoading = false.
C22_LoadingEnds ==
  \A c \in Clients : (page[c] /\ isLoading[c]) ~> ~isLoading[c]

\* A load has just completed with a failure, and the page is no longer loading.
C22_FailedLoadOver ==
  \E c \in Clients :
    /\ lastOp[c].op = "list"
    /\ ~lastOp[c].result.ok
    /\ ~isLoading[c]
    /\ errorMessage[c] # NoMessage

\* C23: a create that succeeded closes the upload modal and starts a full reload
\* without appending the record to documents: in every step of a page that is not
\* loaded again, documents changes only as a load completes, the step in which a
\* create reports success leaves the modal closed and the page loading, and while
\* the reload of a create is awaited documents changes only as that reload completes.
C23_DocumentsOnlyByItsReload ==
  [][\A c \in Clients :
       LET pageLoaded == /\ ops' = ops + 1
                         /\ tasks'[c] # <<>>
                         /\ tasks'[c][Len(tasks'[c])].h = "load"
                         /\ tasks'[c][Len(tasks'[c])].tid = ops'
       IN pageLoaded \/
          /\ documents'[c] # documents[c] => lastOp'[c].op = "list"
          /\ (lastOp'[c].op = "create" /\ lastOp'[c].result.ok) =>
                /\ ~showUploadModal'[c]
                /\ isLoading'[c]
                /\ documents'[c] = documents[c]
          /\ \A i \in TaskSlots :
                (/\ i \in DOMAIN tasks[c]
                 /\ tasks[c][i].h = "create"
                 /\ tasks[c][i].pc = "load"
                 /\ documents'[c] # documents[c])
                => (lastOp'[c].op = "list" /\ lastOp'[c].tid = tasks[c][i].tid)]_vars

\* C24: the step in which a create or a delete reports a failure leaves
\* isSubmitting false, starts no load (isLoading and the loads under way are as
\* before) and leaves showUploadModal, documentToDelete, documents, filters,
\* currentView and errorMessage as they were.
C24_FailureLeavesState ==
  [][\A c \in Clients :
       (lastOp'[c].op \in {"create", "delete"} /\ ~lastOp'[c].result.ok) =>
         LET loads(ts) == {ts[k].tid : k \in {j \in DOMAIN ts : ts[j].pc = "load"}}
         IN /\ ~isSubmitting'[c]
            /\ showUploadModal'[c] = showUploadModal[c]
            /\ documentToDelete'[c] = documentToDelete[c]
            /\ isLoading'[c] = isLoading[c]
            /\ loads(tasks'[c]) = loads(tasks[c])
            /\ documents'[c] = documents[c]
            /\ filters'[c] = filters[c]
            /\ currentView'[c] = currentView[c]
            /\ errorMessage'[c] = errorMessage[c]]_vars

\* A delete has just failed at its PUT: its modal is still open on the record, the
\* list is as it was shown, and nothing is being submitted or loaded.
C24_DeleteFailedModalOpen ==
  \E c \in Clients :
    /\ lastOp[c].op = "delete"
    /\ ~lastOp[c].result.ok
    /\ lastOp[c].put = "http_error"
    /\ documentToDelete[c] # <<>>
    /\ documents[c] # <<>>
    /\ ~isSubmitting[c]
    /\ ~isLoading[c]

\* C25: a delete that succeeded closes its modal before its reload starts, as a
\* create does: in the state in which the delete reports success documentToDelete
\* is null, and while the reload of a delete is under way documentToDelete does not
\* hold the deleted record, so that the delete form cannot be submitted for it again.
C25_ModalClosedBeforeReload ==
  \A c \in Clients :
    /\ (lastOp[c].op = "delete" /\ lastOp[c].result.ok) => documentToDelete[c] = <<>>
    /\ \A i \in DOMAIN tasks[c] :
         (tasks[c][i].h = "delete" /\ tasks[c][i].pc = "load") =>
           documentToDelete[c] = <<>> \/ documentToDelete[c][1].id # tasks[c][i].docId

\* C26: a dismissal (close button, cancel, a click on the overlay, Escape) leaves
\* the modal it dismisses closed, showUploadModal = false for the upload modal and
\* documentToDelete = null for the delete modal, and isSubmitting = false.
C26_DismissalResets ==
  [][\A c \in Clients :
       /\ HandleUploadModalClose(c) => ~showUploadModal'[c] /\ ~isSubmitting'[c]
       /\ HandleCloseDeleteModal(c) => documentToDelete'[c] = <<>> /\ ~isSubmitting'[c]
       /\ HandleEscKey(c) => /\ ~showUploadModal'[c]
                             /\ documentToDelete'[c] = <<>>
                             /\ ~isSubmitting'[c]]_vars

\* C27: on a page whose every request resolves, with success or with failure, a
\* create or delete submission (isSubmitting = true) is always followed by a state
\* with isSubmitting = false.
C27_SubmittingEnds ==
  \A c \in Clients : isSubmitting[c] ~> ~isSubmitting[c]

\* The reload that followed a successful delete of the remote variant has just
\* completed and the handler has gone on: nothing is being submitted any more.
C27_DeleteSettled ==
  \E c \in Clients :
    /\ variant = "remote"
    /\ lastOp[c].op = "list"
    /\ lastOp[c].after = "delete"
    /\ documentToDelete[c] = <<>>
    /\ ~isSubmitting[c]

\* C28: a change of the division filter, of the status filter, of the search text
\* or of the view mode issues no repository call (the requests and timers under
\* way are as before) and leaves documents, the stored collection (the bin,
\* localStorage, the in-memory list), showUploadModal, documentToDelete, isLoading,
\* errorMessage and isSubmitting as they were.
C28_FiltersTouchViewOnly ==
  [][\A c \in Clients :
       (\/ \E value \in {"all"} \cup Divisions : HandleFilterChange(c, "division-filter", value)
        \/ \E value \in {"all"} \cup Statuses : HandleFilterChange(c, "status-filter", value)
        \/ \E text \in SearchTexts : HandleSearch(c, text)
        \/ \E view \in {"grid", "list"} : SetView(c, view))
       => /\ tasks' = tasks
          /\ ops' = ops
          /\ documents' = documents
          /\ db' = db
          /\ storage' = storage
          /\ mockDatabase' = mockDatabase
          /\ showUploadModal' = showUploadModal
          /\ documentToDelete' = documentToDelete
          /\ isLoading' = isLoading
          /\ errorMessage' = errorMessage
          /\ isSubmitting' = isSubmitting]_vars

\* The user has searched and filtered a loaded list down to a part of it: the
\* list held by the page is still the stored collection and no request is under way.
C28_NarrowedViewFullList ==
  \E c \in Clients :
    /\ filters[c].search # ""
    /\ filters[c].status # "all"
    /\ currentView[c] = "list"
    /\ visible[c].listed
    /\ Len(visible[c].docs) < Len(documents[c])
    /\ documents[c] = IF variant = "remote" THEN db.record ELSE storage
    /\ tasks[c] = <<>>

\* C29: opening a document of documents opens the File that the session cache
\* holds under the document's id if it holds one, and otherwise the record's
\* fileUrl; a page load leaves the cache empty, and entries come into it only by a
\* create of that page, so that after a reload every document opens through its
\* fileUrl until the page creates one.
C29_OpensCacheOrUrl ==
  [][\A c \in Clients :
       /\ lastOp'[c].op = "open" =>
            \E at \in DOMAIN documents[c] :
              LET doc == documents[c][at] IN
                /\ doc.id = lastOp'[c].id
                /\ \A j \in 1..(at - 1) : documents[c][j].id # doc.id
                /\ IF doc.id \in DOMAIN mockFileStore[c]
                     THEN lastOp'[c].file = mockFileStore[c][doc.id] /\ lastOp'[c].url = ""
                     ELSE lastOp'[c].file = NoFile /\ lastOp'[c].url = doc.fileUrl
       /\ Reload(c) => mockFileStore'[c] = EmptyStore
       /\ \A id \in (DOMAIN mockFileStore'[c]) \ (DOMAIN mockFileStore[c]) :
            \/ \E i \in DOMAIN tasks'[c] : tasks'[c][i].h = "create" /\ tasks'[c][i].newId = id
            \/ lastOp'[c].op = "create" /\ lastOp'[c].id = id]_vars

\* A record that the page created is opened after the page was loaded again: the
\* cache is empty and what opens is the stored fileUrl, not the File.
C29_OpenedAfterReload ==
  \E c \in Clients :
    /\ lastOp[c].op = "open"
    /\ mockFileStore[c] = EmptyStore
    /\ lastOp[c].file = NoFile
    /\ lastOp[c].url # ""
    /\ lastOp[c].url # SeedDoc(1).fileUrl

\* C30: in the local variant, in the state in which a create or a delete reports
\* success the value persisted under DB_KEY is the in-memory list, which is what
\* loadDatabase() would restore at the next startup.
C30_PersistedIsMemory ==
  \A c \in Clients :
    (/\ variant = "local"
     /\ lastOp[c].op \in {"create", "delete"}
     /\ lastOp[c].result.ok)
    => storage = mockDatabase[c]

\* C31: while a create or a delete that the page started is under way (its facade
\* call has not resolved), isSubmitting is true.
C31_SubmittingWhileInFlight ==
  \A c \in Clients :
    (\E i \in DOMAIN tasks[c] :
       /\ tasks[c][i].h \in {"create", "delete"}
       /\ tasks[c][i].pc # "load"
       /\ ~tasks[c][i].orphan)
    => isSubmitting[c]

\* C32: on a single page, when no load, create or delete is under way (no request
\* of the page is anywhere) and the load that completed last succeeded (no error is
\* set: a failed load sets one, and only the start of a load clears it), documents
\* is the stored collection: the record of the bin (remote), the in-memory list
\* that list() copies (local).
C32_SettledListIsStored ==
  \A c \in Clients :
    (page[c] /\ tasks[c] = <<>> /\ errorMessage[c] = NoMessage)
    => documents[c] = IF variant = "remote" THEN db.record ELSE mockDatabase[c]

\* C33: the session cache never maps the id of a stored record to a File that was
\* uploaded for another create: a stored record whose id is a key of the cache
\* carries the name of the cached File and (remote) the url that the upload of that
\* very File was answered with.
C33_CacheHoldsOwnFile ==
  \A c \in Clients :
    LET stored == IF variant = "remote" THEN db.record ELSE mockDatabase[c]
    IN \A id \in DOMAIN mockFileStore[c] : \A k \in DOMAIN stored :
         stored[k].id = id =>
           /\ stored[k].fileName = mockFileStore[c][id].name
           /\ variant = "remote" => stored[k].fileUrl = BlobUrl(mockFileStore[c][id].obj)

\* C34: on a single page with no call under way, every key of the session cache
\* is the id of a record of the stored collection that was created with the cached
\* File: a create that failed has left no entry, a delete that succeeded has
\* removed the entry of its id.
C34_CacheKeysAreStored ==
  \A c \in Clients :
    LET stored == IF variant = "remote" THEN db.record ELSE mockDatabase[c]
    IN (page[c] /\ tasks[c] = <<>>) =>
         \A id \in DOMAIN mockFileStore[c] :
           \E k \in DOMAIN stored :
             /\ stored[k].id = id
             /\ stored[k].fileName = mockFileStore[c][id].name

\* C35: while the list request of a load is outstanding (sent and not answered;
\* local: its timer has not fired), isLoading is true, whatever other loads have
\* completed meanwhile.
C35_LoadingWhileListOutstanding ==
  \A c \in Clients :
    (page[c] /\ \E i \in DOMAIN tasks[c] :
                  /\ tasks[c][i].pc = "load"
                  /\ tasks[c][i].net = "sent")
    => isLoading[c]

====
